---- MODULE Spec2Model ----
(***************************************************************************)
(* bonk-staking-rewards: the receipt-address derivation (pda.rs), the      *)
(* deposit instruction encoder (instructions.rs) and the client's stake()  *)
(* orchestration (client.rs) over an RPC endpoint and the on-chain state.  *)
(*                                                                         *)
(* Representation of machine integers.  TLC's integers are 32-bit signed,  *)
(* so a u32 / u64 is written in base 65536, most significant digit first:  *)
(* a u32 is <<d1, d0>>, a u64 is <<d3, d2, d1, d0>>, each digit in         *)
(* 0..65535.  A Pubkey is its 32 raw bytes.                                *)
(***************************************************************************)
EXTENDS Integers, Sequences, FiniteSets, TLC

VARIABLES
    receipts,   \* on-chain: addresses of the stake deposit receipt accounts that exist
    tokens,     \* on-chain: token accounts that exist, address -> amount
    pc,         \* per caller: where its running client operation stands
    call,       \* per caller: the arguments of the running operation
    loc,        \* per caller: the locals of the running operation
    result,     \* per caller: what the operation returned
    rpc,        \* per caller: the RPC requests the running operation has issued, in order
    lastIx,     \* the instruction returned by the latest direct build_stake_instruction call
    lastPda,    \* the pair returned by the latest direct derive_stake_deposit_receipt call
    built,      \* every (input, output) of build_stake_instruction observed so far
    derived,    \* every (input, output) of derive_stake_deposit_receipt observed so far
    extWrites,  \* number of writes made to the chain by parties other than the callers
    failed,     \* per caller: whether an RPC call of the running operation failed in transport
    lastLock    \* the latest direct call of StakeInfo's two methods: inputs and results

vars == <<receipts, tokens, pc, call, loc, result, rpc, lastIx, lastPda, built, derived,
          extWrites, failed, lastLock>>

---------------------------------------------------------------------------
(* Fixed addresses (lib.rs) and the well-known program ids the code names. *)

\* DezXAZ8z7PnrnRJjz3wXBoRgixCa6xjnB7YaB1pPB263
BONK_MINT ==
  <<188, 7, 197, 110, 96, 173, 61, 63, 23, 115, 130, 234, 198, 84, 143, 186,
    31, 211, 44, 253, 144, 202, 2, 179, 231, 207, 161, 133, 253, 206, 115, 152>>

\* STAKEkKzbdeKkqzKpLkNQD3SUuLgshDKCD7U8duxAbB
BONK_STAKE_PROGRAM_ID ==
  <<6, 133, 25, 160, 113, 84, 117, 131, 168, 198, 63, 228, 210, 230, 246, 94,
    228, 251, 201, 253, 79, 15, 255, 160, 155, 232, 170, 252, 128, 93, 15, 154>>

\* 9AdEE8AAm1XgJrPEs4zkTPozr3o4U5iGbgvPwkNdLDJ3
BONK_STAKE_POOL ==
  <<121, 84, 175, 148, 248, 108, 179, 238, 55, 228, 2, 211, 66, 94, 173, 179,
    59, 200, 91, 185, 60, 38, 184, 41, 15, 13, 127, 123, 10, 221, 198, 164>>

\* 4XHP9YQeeXPXHAjNXuKio1na1ypcxFSqFYBHtptQticd
BONK_VAULT ==
  <<52, 85, 2, 16, 182, 140, 124, 202, 109, 217, 24, 84, 74, 80, 207, 121,
    38, 15, 204, 133, 110, 87, 65, 72, 140, 7, 117, 247, 139, 121, 177, 94>>

\* FYUjeMAFjbTzdMG91RSW5P4HT2sT7qzJQgDPiPG9ez9o
BONK_STAKE_MINT ==
  <<216, 19, 251, 125, 169, 32, 99, 43, 123, 160, 230, 100, 190, 192, 227, 20,
    147, 161, 55, 213, 111, 67, 32, 117, 184, 5, 59, 55, 188, 97, 13, 170>>

\* 2PPAJ8P5JgKZjkxq4h3kFSwLcuakFYr4fbV68jGghWxi
BONK_REWARD_VAULT_0 ==
  <<20, 151, 133, 123, 134, 164, 18, 242, 151, 91, 84, 24, 14, 57, 251, 43,
    244, 24, 107, 33, 33, 196, 20, 47, 126, 108, 208, 135, 27, 190, 214, 195>>

\* spl_token::id(): TokenkegQfeZyiNwAJbNbGKPFXCWuBvf9Ss623VQ5DA
TokenProgramId ==
  <<6, 221, 246, 225, 215, 101, 161, 147, 217, 203, 225, 70, 206, 235, 121, 172,
    28, 180, 133, 237, 95, 91, 55, 145, 58, 140, 245, 133, 126, 255, 0, 169>>

\* spl_associated_token_account::id(): ATokenGPvbdGVxr1b2hvZbsiqW5xWH25efTNsLJA8knL
AssociatedTokenProgramId ==
  <<140, 151, 37, 143, 78, 36, 137, 241, 187, 61, 16, 41, 20, 142, 13, 131,
    11, 90, 19, 153, 218, 255, 16, 132, 4, 142, 123, 216, 219, 233, 248, 89>>

\* sysvar::rent::id(): SysvarRent111111111111111111111111111111111
RentSysvarId ==
  <<6, 167, 213, 23, 25, 44, 92, 81, 33, 140, 201, 76, 61, 74, 241, 127,
    88, 218, 238, 8, 155, 161, 253, 68, 227, 219, 217, 138, 0, 0, 0, 0>>

\* system_program::id(): 11111111111111111111111111111111
SystemProgramId ==
  <<0, 0, 0, 0, 0, 0, 0, 0, 0, 0, 0, 0, 0, 0, 0, 0,
    0, 0, 0, 0, 0, 0, 0, 0, 0, 0, 0, 0, 0, 0, 0, 0>>

\* ComputeBudget111111111111111111111111111111
ComputeBudgetProgramId ==
  <<3, 6, 70, 111, 229, 33, 23, 50, 255, 236, 173, 186, 114, 195, 155, 231,
    188, 140, 229, 187, 197, 247, 18, 107, 44, 67, 155, 58, 64, 0, 0, 0>>

\* The owner of the regression fixtures: 6tBou5MHL5aWpDy6cgf3wiwGGK2mR8qs68ujtpaoWrf2
FixtureOwner ==
  <<87, 103, 70, 246, 130, 161, 175, 27, 25, 159, 207, 221, 188, 113, 239, 26,
    206, 41, 143, 7, 114, 105, 243, 46, 157, 82, 72, 33, 184, 166, 56, 201>>

\* The fixture for nonce 1: 7ACZ6QNW4sR3v8ooQzvUrr4ZZ13wg4Dj4ouQSdEknWhj
FixtureReceipt1 ==
  <<91, 129, 105, 136, 8, 94, 86, 205, 9, 103, 106, 233, 170, 40, 242, 1,
    56, 213, 180, 212, 149, 101, 255, 153, 62, 220, 113, 204, 97, 12, 224, 166>>

\* The fixture for nonce 2: Do2sHbcqswaLupdvjGiTZHh4U9GB3xF3HztsZoeLBmHh
FixtureReceipt2 ==
  <<190, 23, 18, 68, 170, 251, 157, 235, 186, 123, 170, 54, 207, 106, 143, 63,
    128, 154, 29, 252, 94, 214, 188, 228, 236, 55, 166, 200, 113, 123, 55, 88>>

\* b"stakeDepositReceipt"
StakeDepositReceiptSeed ==
  <<115, 116, 97, 107, 101, 68, 101, 112, 111, 115, 105, 116,
    82, 101, 99, 101, 105, 112, 116>>

\* b"ProgramDerivedAddress", the marker find_program_address hashes last
PdaMarker ==
  <<80, 114, 111, 103, 114, 97, 109, 68, 101, 114, 105, 118, 101, 100,
    65, 100, 100, 114, 101, 115, 115>>

\* The deposit discriminator
DepositDiscriminator == <<242, 35, 198, 137, 82, 225, 242, 182>>

---------------------------------------------------------------------------
(* Machine integers.                                                       *)

Digit == 256 * 256

\* A natural below 2^31 as a u32 / u64.
U32(n) == <<n \div Digit, n % Digit>>
U64(n) == <<0, 0, n \div Digit, n % Digit>>

U64Zero == <<0, 0, 0, 0>>

\* Faulty variant of DigitsLess: a <= b.
DigitsLessOrEqual(a, b) ==
    \/ a = b
    \/ \E i \in 1..Len(a) : a[i] < b[i] /\ \A j \in 1..(i - 1) : a[j] = b[j]

\* a < b on equal-length digit strings
RECURSIVE DigitsLess(_, _)
DigitsLess(a, b) ==
    IF a = <<>> THEN FALSE
    ELSE IF Head(a) # Head(b) THEN Head(a) < Head(b)
    ELSE DigitsLess(Tail(a), Tail(b))

\* The value of a u64 whose two high digits are 0 and which is below 2^31.
U64Small(d) == d[3] * Digit + d[4]

\* Faulty variant of to_le_bytes: most significant byte first.
to_be_bytes(d) ==
    [i \in 1..(2 * Len(d)) |->
        LET dig == d[((i - 1) \div 2) + 1]
        IN  IF i % 2 = 1 THEN dig \div 256 ELSE dig % 256]

\* uN::to_le_bytes: least significant byte first.
to_le_bytes(d) ==
    LET k == Len(d)
    IN  [i \in 1..(2 * k) |->
            LET dig == d[k - ((i - 1) \div 2)]
            IN  IF i % 2 = 1 THEN dig % 256 ELSE dig \div 256]

---------------------------------------------------------------------------
(* Pubkey::find_program_address (solana_sdk), as derive_stake_deposit_     *)
(* receipt and get_associated_token_address use it.  It hashes             *)
(* seeds || bump || program id || "ProgramDerivedAddress" with SHA-256,    *)
(* trying bump = 255, 254, ... until the digest is not a curve point.      *)
(* SHA-256 is an ideal hash here: the digest of a message is the message   *)
(* itself under the tag -1, except for the two messages whose digests the  *)
(* repository's regression test pins.                                      *)

RECURSIVE Concat(_)
Concat(seeds) == IF seeds = <<>> THEN <<>> ELSE Head(seeds) \o Concat(Tail(seeds))

PdaPreimage(seeds, bump, program_id) ==
    Concat(seeds) \o <<bump>> \o program_id \o PdaMarker

\* The messages of the regression fixtures, byte for byte.
FixturePreimage1 ==
    FixtureOwner \o BONK_STAKE_POOL \o <<1, 0, 0, 0>> \o StakeDepositReceiptSeed
        \o <<255>> \o BONK_STAKE_PROGRAM_ID \o PdaMarker

FixturePreimage2 ==
    FixtureOwner \o BONK_STAKE_POOL \o <<2, 0, 0, 0>> \o StakeDepositReceiptSeed
        \o <<255>> \o BONK_STAKE_PROGRAM_ID \o PdaMarker

Sha256(m) ==
    IF m = FixturePreimage1 THEN FixtureReceipt1
    ELSE IF m = FixturePreimage2 THEN FixtureReceipt2
    ELSE <<-1>> \o m

\* Whether a digest decompresses to a curve point.  The pinned digests are
\* program addresses, hence off the curve; for an ideal digest the answer is
\* a fixed function of the message (about half of all digests are on it):
\* the parity of its first byte plus the bump byte.
IsOnCurve(h) == h[1] = -1 /\ (h[2] + h[Len(h) - Len(PdaMarker) - 32]) % 2 = 0

RECURSIVE TryBump(_, _, _)
TryBump(seeds, bump, program_id) ==
    LET h == Sha256(PdaPreimage(seeds, bump, program_id))
    IN  IF ~IsOnCurve(h) \/ bump = 0 THEN <<h, bump>>
        ELSE TryBump(seeds, bump - 1, program_id)

find_program_address(seeds, program_id) == TryBump(seeds, 255, program_id)

\* Faulty variant of derive_stake_deposit_receipt: the pool seed before the owner seed.
derive_pool_first(owner, stake_pool, nonce) ==
    find_program_address(
        <<stake_pool, owner, to_le_bytes(nonce), StakeDepositReceiptSeed>>,
        BONK_STAKE_PROGRAM_ID)

\* Faulty variant of derive_stake_deposit_receipt: state shared between calls,
\* the bump search starts one lower for every call observed so far.
derive_with_shared_state(owner, stake_pool, nonce) ==
    TryBump(<<owner, stake_pool, to_le_bytes(nonce), StakeDepositReceiptSeed>>,
            255 - Cardinality(derived), BONK_STAKE_PROGRAM_ID)

\* pda.rs: nonce is a u32
derive_stake_deposit_receipt(owner, stake_pool, nonce) ==
    find_program_address(
        <<owner, stake_pool, to_le_bytes(nonce), StakeDepositReceiptSeed>>,
        BONK_STAKE_PROGRAM_ID)

\* spl_associated_token_account::get_associated_token_address
get_associated_token_address(wallet, mint) ==
    find_program_address(<<wallet, TokenProgramId, mint>>, AssociatedTokenProgramId)[1]

get_user_bonk_ata(user) == get_associated_token_address(user, BONK_MINT)

get_user_stake_ata(user) == get_associated_token_address(user, BONK_STAKE_MINT)

---------------------------------------------------------------------------
(* instructions.rs                                                         *)

\* AccountMeta::new(pubkey, is_signer) / AccountMeta::new_readonly(pubkey, is_signer)
AccountMetaNew(pubkey, is_signer) ==
    [pubkey |-> pubkey, is_signer |-> is_signer, is_writable |-> TRUE]

\* Faulty variant of AccountMetaReadonly: the reference is writable, as with new().
AccountMetaReadonlyWritable(pubkey, is_signer) ==
    [pubkey |-> pubkey, is_signer |-> is_signer, is_writable |-> TRUE]

AccountMetaReadonly(pubkey, is_signer) ==
    [pubkey |-> pubkey, is_signer |-> is_signer, is_writable |-> FALSE]

\* build_stake_instruction: the instruction data (amount, lock_duration: u64; nonce: u32)
stake_instruction_data(amount, lock_duration, nonce) ==
    DepositDiscriminator
        \o to_le_bytes(nonce)
        \o to_le_bytes(amount)
        \o to_le_bytes(lock_duration)

\* Faulty variant of stake_instruction_accounts: vault and stake mint exchanged.
stake_instruction_accounts_swapped(user, nonce) ==
    << AccountMetaNew(user, TRUE),
       AccountMetaNew(user, TRUE),
       AccountMetaNew(get_user_bonk_ata(user), FALSE),
       AccountMetaNew(BONK_STAKE_MINT, FALSE),
       AccountMetaNew(BONK_VAULT, FALSE),
       AccountMetaNew(get_user_stake_ata(user), FALSE),
       AccountMetaNew(BONK_STAKE_POOL, FALSE),
       AccountMetaNew(derive_stake_deposit_receipt(user, BONK_STAKE_POOL, nonce)[1], FALSE),
       AccountMetaReadonly(TokenProgramId, FALSE),
       AccountMetaReadonly(RentSysvarId, FALSE),
       AccountMetaReadonly(SystemProgramId, FALSE),
       AccountMetaNew(BONK_REWARD_VAULT_0, FALSE) >>

\* build_stake_instruction: the accounts list, the reward vault pushed last
stake_instruction_accounts(user, nonce) ==
    LET stake_deposit_receipt == derive_stake_deposit_receipt(user, BONK_STAKE_POOL, nonce)[1]
        user_bonk_ata == get_user_bonk_ata(user)
        user_stake_ata == get_user_stake_ata(user)
        accounts == <<
            AccountMetaNew(user, TRUE),
            AccountMetaNew(user, TRUE),
            AccountMetaNew(user_bonk_ata, FALSE),
            AccountMetaNew(BONK_VAULT, FALSE),
            AccountMetaNew(BONK_STAKE_MINT, FALSE),
            AccountMetaNew(user_stake_ata, FALSE),
            AccountMetaNew(BONK_STAKE_POOL, FALSE),
            AccountMetaNew(stake_deposit_receipt, FALSE),
            AccountMetaReadonly(TokenProgramId, FALSE),
            AccountMetaReadonly(RentSysvarId, FALSE),
            AccountMetaReadonly(SystemProgramId, FALSE) >>
    IN  Append(accounts, AccountMetaNew(BONK_REWARD_VAULT_0, FALSE))

\* Faulty variant of build_stake_instruction: the reward vault is left out once
\* the receipt account exists on the chain.
build_stake_instruction_stateful(user, amount, lock_duration, nonce) ==
    [program_id |-> BONK_STAKE_PROGRAM_ID,
     accounts |->
        IF derive_stake_deposit_receipt(user, BONK_STAKE_POOL, nonce)[1] \in receipts
        THEN SubSeq(stake_instruction_accounts(user, nonce), 1, 11)
        ELSE stake_instruction_accounts(user, nonce),
     data |-> stake_instruction_data(amount, lock_duration, nonce)]

\* Faulty variant of build_stake_instruction: a zero amount yields no instruction.
build_stake_instruction_validating(user, amount, lock_duration, nonce) ==
    IF amount = U64Zero
    THEN [program_id |-> <<>>, accounts |-> <<>>, data |-> <<>>]
    ELSE [program_id |-> BONK_STAKE_PROGRAM_ID,
          accounts |-> stake_instruction_accounts(user, nonce),
          data |-> stake_instruction_data(amount, lock_duration, nonce)]

build_stake_instruction(user, amount, lock_duration, nonce) ==
    [program_id |-> BONK_STAKE_PROGRAM_ID,
     accounts |-> stake_instruction_accounts(user, nonce),
     data |-> stake_instruction_data(amount, lock_duration, nonce)]

build_compute_budget_price_instruction(micro_lamports) ==
    [program_id |-> ComputeBudgetProgramId,
     accounts |-> <<>>,
     data |-> <<3>> \o to_le_bytes(micro_lamports)]

\* spl_associated_token_account::instruction::create_associated_token_account_idempotent
create_associated_token_account_idempotent(funder, wallet, mint, token_program) ==
    [program_id |-> AssociatedTokenProgramId,
     accounts |-> <<
        AccountMetaNew(funder, TRUE),
        AccountMetaNew(get_associated_token_address(wallet, mint), FALSE),
        AccountMetaReadonly(wallet, FALSE),
        AccountMetaReadonly(mint, FALSE),
        AccountMetaReadonly(SystemProgramId, FALSE),
        AccountMetaReadonly(token_program, FALSE) >>,
     data |-> <<1>>]

---------------------------------------------------------------------------
(* client.rs: BonkStakingClient::stake, one action per RPC reply: each     *)
(* action takes the reply to the request in flight and runs the code up to *)
(* the next request or to the return.                                      *)

Callers == {1, 2}

\* Faulty variant of ProbeLimit: the scan ends one nonce early.
ProbeLimitShort == 100 - 1

\* find_next_available_nonce scans 0..100
ProbeLimit == 100

\* build_compute_budget_price_instruction(5045)
ComputeUnitPrice == 5045

NoNonce == [some |-> FALSE, n |-> U32(0)]
SomeNonce(n) == [some |-> TRUE, n |-> n]

\* solana_client's ClientError, the error value of the network layer: the
\* request it belongs to and what went wrong ("transport": the endpoint could
\* not be reached or did not answer; "program": the network ran the
\* transaction and the program rejected it).
ClientErrorValue(request, cause) == [request |-> request, cause |-> cause]
NoError == ClientErrorValue("none", "none")

\* ClientError's to_string(): Display prints what went wrong, not the request.
ErrorToString(e) == e.cause

\* A Result: kind is "Ok" or the error variant; value is the u64 and stakes the
\* Vec<StakeInfo> an Ok carries; required / available, source (a ClientError)
\* and text (a String) are what the error variant carries.
NoResult == [kind |-> "None", value |-> U64Zero, stakes |-> <<>>,
             required |-> U64Zero, available |-> U64Zero, source |-> NoError, text |-> ""]
Ok == [NoResult EXCEPT !.kind = "Ok"]
OkValue(v) == [NoResult EXCEPT !.kind = "Ok", !.value = v]
OkStakes(v) == [NoResult EXCEPT !.kind = "Ok", !.stakes = v]
Err(kind) == [NoResult EXCEPT !.kind = kind]
\* Faulty variant of ErrFrom: the error value is turned into its text.
ErrFromAsText(kind, source) == [NoResult EXCEPT !.kind = kind, !.text = ErrorToString(source)]

\* an error that carries the network layer's error value (From<ClientError>)
ErrFrom(kind, source) == [NoResult EXCEPT !.kind = kind, !.source = source]
\* an error that carries a String
ErrText(kind, text) == [NoResult EXCEPT !.kind = kind, !.text = text]

\* The arguments of an operation.  For the two command-line programs: bonk
\* is the amount in whole BONK, days the duration selection (menu choice or
\* months), confirm the answer to "Proceed?".
NoCall == [op |-> "none", user |-> FixtureOwner, amount |-> U64Zero, days |-> 0,
           nonce |-> NoNonce, bonk |-> 0, confirm |-> FALSE]

NoLoc == [lock_duration_seconds |-> 0, nonce |-> 0, stake_nonce |-> U32(0),
          bonk_balance |-> U64Zero, instructions |-> <<>>, stakes |-> <<>>,
          sol_balance |-> 0]

ReceiptAddress(owner, n) == derive_stake_deposit_receipt(owner, BONK_STAKE_POOL, U32(n))[1]

\* An entry of the request log: the RPC method and, for the get_account of
\* loop iteration `nonce`, that nonce (-1 otherwise).
Request(method, nonce) == [method |-> method, nonce |-> nonce]

ProbeRequest(nonce) == Request("get_account", nonce)

BalanceRequest == Request("get_token_account_balance", -1)

\* Faulty variant of LockDurationSeconds: no `_` arm, any number of days converts.
LockDurationUnchecked(lock_duration_days) == lock_duration_days * 24 * 60 * 60

\* Faulty variant of LockDurationSeconds: the 12-month arm counts 360 days.
LockDurationShortYear(lock_duration_days) ==
    CASE lock_duration_days = 30 -> 30 * 24 * 60 * 60
      [] lock_duration_days = 90 -> 90 * 24 * 60 * 60
      [] lock_duration_days = 180 -> 180 * 24 * 60 * 60
      [] lock_duration_days = 365 -> 360 * 24 * 60 * 60
      [] OTHER -> -1

\* The match on lock_duration_days: the seconds, or -1 for the `_` arm.
LockDurationSeconds(lock_duration_days) ==
    CASE lock_duration_days = 30 -> 30 * 24 * 60 * 60
      [] lock_duration_days = 90 -> 90 * 24 * 60 * 60
      [] lock_duration_days = 180 -> 180 * 24 * 60 * 60
      [] lock_duration_days = 365 -> 365 * 24 * 60 * 60
      [] OTHER -> -1

\* Faulty variant of AmountIsZero: the check is missing.
AmountCheckSkipped(amount) == FALSE

\* stake(): `if amount == 0`
AmountIsZero(amount) == amount = U64Zero

Return(c, r) ==
    /\ pc' = [pc EXCEPT ![c] = "done"]
    /\ result' = [result EXCEPT ![c] = r]

\* Faulty variant of StakeCall: the nonce argument is not looked at, the nonce
\* is always searched for.
StakeCallIgnoringNonce(c, user, amount, lock_duration_days, nonce) ==
    /\ pc[c] = "idle"
    /\ call' = [call EXCEPT ![c] = [NoCall EXCEPT !.op = "stake", !.user = user,
                                                  !.amount = amount,
                                                  !.days = lock_duration_days,
                                                  !.nonce = nonce]]
    /\ LET secs == LockDurationSeconds(lock_duration_days)
       IN  IF AmountIsZero(amount)
           THEN /\ Return(c, Err("InvalidAmount"))
                /\ loc' = [loc EXCEPT ![c] = NoLoc]
                /\ rpc' = [rpc EXCEPT ![c] = <<>>]
           ELSE IF secs = -1
           THEN /\ Return(c, Err("InvalidDuration"))
                /\ loc' = [loc EXCEPT ![c] = NoLoc]
                /\ rpc' = [rpc EXCEPT ![c] = <<>>]
           ELSE /\ pc' = [pc EXCEPT ![c] = "probe"]
                /\ loc' = [loc EXCEPT ![c] = [NoLoc EXCEPT !.lock_duration_seconds = secs]]
                /\ rpc' = [rpc EXCEPT ![c] = <<ProbeRequest(0)>>]
                /\ result' = [result EXCEPT ![c] = NoResult]
    /\ UNCHANGED <<receipts, tokens, lastIx, lastPda, built, derived, extWrites>>

\* Faulty variant of StakeCall: the duration is looked at before the amount.
StakeCallDurationFirst(c, user, amount, lock_duration_days, nonce) ==
    /\ pc[c] = "idle"
    /\ call' = [call EXCEPT ![c] = [NoCall EXCEPT !.op = "stake", !.user = user,
                                                  !.amount = amount,
                                                  !.days = lock_duration_days,
                                                  !.nonce = nonce]]
    /\ LET secs == LockDurationSeconds(lock_duration_days)
       IN  IF secs = -1
           THEN /\ Return(c, Err("InvalidDuration"))
                /\ loc' = [loc EXCEPT ![c] = NoLoc]
                /\ rpc' = [rpc EXCEPT ![c] = <<>>]
           ELSE IF AmountIsZero(amount)
           THEN /\ Return(c, Err("InvalidAmount"))
                /\ loc' = [loc EXCEPT ![c] = NoLoc]
                /\ rpc' = [rpc EXCEPT ![c] = <<>>]
           ELSE IF nonce.some
           THEN /\ pc' = [pc EXCEPT ![c] = "balance"]
                /\ loc' = [loc EXCEPT ![c] = [NoLoc EXCEPT !.lock_duration_seconds = secs,
                                                          !.stake_nonce = nonce.n]]
                /\ rpc' = [rpc EXCEPT ![c] = <<BalanceRequest>>]
                /\ result' = [result EXCEPT ![c] = NoResult]
           ELSE /\ pc' = [pc EXCEPT ![c] = "probe"]
                /\ loc' = [loc EXCEPT ![c] = [NoLoc EXCEPT !.lock_duration_seconds = secs]]
                /\ rpc' = [rpc EXCEPT ![c] = <<ProbeRequest(0)>>]
                /\ result' = [result EXCEPT ![c] = NoResult]
    /\ UNCHANGED <<receipts, tokens, lastIx, lastPda, built, derived, extWrites>>

\* stake(), from its entry to its first RPC request (or to an early return).
StakeCall(c, user, amount, lock_duration_days, nonce) ==
    /\ pc[c] = "idle"
    /\ call' = [call EXCEPT ![c] = [NoCall EXCEPT !.op = "stake", !.user = user,
                                                  !.amount = amount,
                                                  !.days = lock_duration_days,
                                                  !.nonce = nonce]]
    /\ LET secs == LockDurationSeconds(lock_duration_days)
       IN  IF AmountIsZero(amount)
           THEN /\ Return(c, Err("InvalidAmount"))
                /\ loc' = [loc EXCEPT ![c] = NoLoc]
                /\ rpc' = [rpc EXCEPT ![c] = <<>>]
           ELSE IF secs = -1
           THEN /\ Return(c, Err("InvalidDuration"))
                /\ loc' = [loc EXCEPT ![c] = NoLoc]
                /\ rpc' = [rpc EXCEPT ![c] = <<>>]
           ELSE IF nonce.some
           THEN /\ pc' = [pc EXCEPT ![c] = "balance"]
                /\ loc' = [loc EXCEPT ![c] = [NoLoc EXCEPT !.lock_duration_seconds = secs,
                                                          !.stake_nonce = nonce.n]]
                /\ rpc' = [rpc EXCEPT ![c] = <<BalanceRequest>>]
                /\ result' = [result EXCEPT ![c] = NoResult]
           ELSE /\ pc' = [pc EXCEPT ![c] = "probe"]
                /\ loc' = [loc EXCEPT ![c] = [NoLoc EXCEPT !.lock_duration_seconds = secs]]
                /\ rpc' = [rpc EXCEPT ![c] = <<ProbeRequest(0)>>]
                /\ result' = [result EXCEPT ![c] = NoResult]
    /\ UNCHANGED <<receipts, tokens, lastIx, lastPda, built, derived, extWrites>>

\* Faulty variant of GetAccountIsErr: a missing account is no error.
GetAccountIsErrOnFailureOnly(key, transport_ok) == ~transport_ok

\* Faulty variant of GetAccountIsErr: a failed call is no error.
GetAccountIsErrOnMissingOnly(key, transport_ok) == key \notin receipts

\* RpcClient::get_account: Err when the account does not exist or the call fails.
GetAccountIsErr(key, transport_ok) == ~transport_ok \/ key \notin receipts

\* Faulty variant of ProbeReply: the loop steps by two.
ProbeReplySkipping(c, transport_ok) ==
    /\ pc[c] = "probe"
    /\ LET nonce == loc[c].nonce
           user == call[c].user
           receipt_pda == derive_stake_deposit_receipt(user, BONK_STAKE_POOL, U32(nonce))[1]
       IN  IF GetAccountIsErr(receipt_pda, transport_ok)
           THEN /\ pc' = [pc EXCEPT ![c] = "balance"]
                /\ loc' = [loc EXCEPT ![c].stake_nonce = U32(nonce)]
                /\ rpc' = [rpc EXCEPT ![c] = Append(@, BalanceRequest)]
                /\ UNCHANGED result
           ELSE IF nonce + 2 < ProbeLimit
           THEN /\ loc' = [loc EXCEPT ![c].nonce = nonce + 2]
                /\ rpc' = [rpc EXCEPT ![c] = Append(@, ProbeRequest(nonce + 2))]
                /\ UNCHANGED <<pc, result>>
           ELSE /\ Return(c, Err("InvalidNonce"))
                /\ UNCHANGED <<loc, rpc>>
    /\ UNCHANGED <<receipts, tokens, call, lastIx, lastPda, built, derived, extWrites>>

\* find_next_available_nonce: the reply to get_account for loc.nonce.
ProbeReply(c, transport_ok) ==
    /\ pc[c] = "probe"
    /\ LET nonce == loc[c].nonce
           user == call[c].user
           receipt_pda == derive_stake_deposit_receipt(user, BONK_STAKE_POOL, U32(nonce))[1]
       IN  IF GetAccountIsErr(receipt_pda, transport_ok)
           THEN \* return Ok(nonce); stake() goes on to get_bonk_balance
                /\ pc' = [pc EXCEPT ![c] = "balance"]
                /\ loc' = [loc EXCEPT ![c].stake_nonce = U32(nonce)]
                /\ rpc' = [rpc EXCEPT ![c] = Append(@, BalanceRequest)]
                /\ UNCHANGED result
           ELSE IF nonce + 1 < ProbeLimit
           THEN /\ loc' = [loc EXCEPT ![c].nonce = nonce + 1]
                /\ rpc' = [rpc EXCEPT ![c] = Append(@, ProbeRequest(nonce + 1))]
                /\ UNCHANGED <<pc, result>>
           ELSE /\ Return(c, Err("InvalidNonce"))
                /\ UNCHANGED <<loc, rpc>>
    /\ UNCHANGED <<receipts, tokens, call, lastIx, lastPda, built, derived, extWrites>>

\* The decimal text of an amount, as the RPC reports it (UiTokenAmount.amount).
RECURSIVE ToDecimal(_)
ToDecimal(n) == IF n < 10 THEN <<n>> ELSE Append(ToDecimal(n \div 10), n % 10)

\* str::parse::<u64>: -1 for Err (empty text or a character that is no digit).
RECURSIVE ParseDecimal(_, _)
ParseDecimal(text, acc) ==
    IF text = <<>> THEN acc
    ELSE IF Head(text) \notin 0..9 THEN -1
    ELSE ParseDecimal(Tail(text), acc * 10 + Head(text))

ParseU64(text) == IF text = <<>> THEN -1 ELSE ParseDecimal(text, 0)

\* Faulty variant of ParseOrZero: a text that does not parse counts as its
\* leading digit.
ParseOrLeadingDigit(text) ==
    IF ParseU64(text) # -1 THEN U64(ParseU64(text))
    ELSE IF text # <<>> /\ Head(text) \in 0..9 THEN U64(Head(text))
    ELSE U64Zero

\* balance.amount.parse().unwrap_or(0)
ParseOrZero(text) == IF ParseU64(text) = -1 THEN U64Zero ELSE U64(ParseU64(text))

\* A text no u64 parses from.
GarbageText == <<1, 46, 5>>

\* RpcClient::get_token_account_balance: the amount text, or <<"Err">> when the
\* account does not exist or the call fails.  reply: "ok", "fail" or "garbage".
GetTokenAccountBalance(key, reply) ==
    IF reply = "fail" \/ key \notin DOMAIN tokens THEN [ok |-> FALSE, amount |-> <<>>]
    ELSE IF reply = "garbage" THEN [ok |-> TRUE, amount |-> GarbageText]
    ELSE [ok |-> TRUE, amount |-> ToDecimal(tokens[key])]

\* Faulty variant of get_bonk_balance: the Err arm hands the error on.
get_bonk_balance_propagating(user, reply) ==
    LET r == GetTokenAccountBalance(get_user_bonk_ata(user), reply)
    IN  IF r.ok THEN OkValue(ParseOrZero(r.amount))
        ELSE ErrFrom("ClientError", ClientErrorValue("get_token_account_balance", "transport"))

\* get_bonk_balance: Ok(parsed amount), and Ok(0) in the Err arm
get_bonk_balance(user, reply) ==
    LET r == GetTokenAccountBalance(get_user_bonk_ata(user), reply)
    IN  IF r.ok THEN OkValue(ParseOrZero(r.amount)) ELSE OkValue(U64Zero)

\* get_stake_balance: as get_bonk_balance, on the stake-token account
get_stake_balance(user, reply) ==
    LET r == GetTokenAccountBalance(get_user_stake_ata(user), reply)
    IN  IF r.ok THEN OkValue(ParseOrZero(r.amount)) ELSE OkValue(U64Zero)

\* Faulty variant of StakeInstructions: the deposit is pushed before the
\* creation of the stake-token account.
StakeInstructionsDepositFirst(user, amount, lock_duration_seconds, stake_nonce) ==
    << build_compute_budget_price_instruction(U64(ComputeUnitPrice)),
       build_stake_instruction(user, amount, U64(lock_duration_seconds), stake_nonce),
       create_associated_token_account_idempotent(user, user, BONK_STAKE_MINT, TokenProgramId) >>

\* stake(): the three instructions handed to send_transaction
StakeInstructions(user, amount, lock_duration_seconds, stake_nonce) ==
    << build_compute_budget_price_instruction(U64(ComputeUnitPrice)),
       create_associated_token_account_idempotent(user, user, BONK_STAKE_MINT, TokenProgramId),
       build_stake_instruction(user, amount, U64(lock_duration_seconds), stake_nonce) >>

\* stake(): the reply to get_token_account_balance, the balance check, the build.
BalanceReply(c, reply) ==
    /\ pc[c] = "balance"
    /\ LET user == call[c].user
           amount == call[c].amount
           queried == get_bonk_balance(user, reply)
           bonk_balance == queried.value
       IN  IF queried.kind # "Ok"
           THEN \* `?`
                /\ Return(c, queried)
                /\ UNCHANGED <<loc, rpc>>
           ELSE IF DigitsLess(bonk_balance, amount)
           THEN /\ Return(c, [Err("InsufficientBalance") EXCEPT !.required = amount,
                                                                !.available = bonk_balance])
                /\ loc' = [loc EXCEPT ![c].bonk_balance = bonk_balance]
                /\ UNCHANGED rpc
           ELSE /\ pc' = [pc EXCEPT ![c] = "blockhash"]
                /\ loc' = [loc EXCEPT ![c].bonk_balance = bonk_balance,
                                      ![c].instructions =
                                          StakeInstructions(user, amount,
                                              loc[c].lock_duration_seconds, loc[c].stake_nonce)]
                /\ rpc' = [rpc EXCEPT ![c] = Append(@, Request("get_latest_blockhash", -1))]
                /\ UNCHANGED result
    /\ UNCHANGED <<receipts, tokens, call, lastIx, lastPda, built, derived, extWrites>>

\* get_bonk_balance / get_stake_balance called on the client: up to the request.
BalanceCall(c, op, user) ==
    /\ pc[c] = "idle"
    /\ op \in {"get_bonk_balance", "get_stake_balance"}
    /\ call' = [call EXCEPT ![c] = [NoCall EXCEPT !.op = op, !.user = user]]
    /\ pc' = [pc EXCEPT ![c] = "query"]
    /\ loc' = [loc EXCEPT ![c] = NoLoc]
    /\ rpc' = [rpc EXCEPT ![c] = <<BalanceRequest>>]
    /\ result' = [result EXCEPT ![c] = NoResult]
    /\ UNCHANGED <<receipts, tokens, lastIx, lastPda, built, derived, extWrites>>

\* get_bonk_balance / get_stake_balance: the reply to get_token_account_balance
QueryReply(c, reply) ==
    /\ pc[c] = "query"
    /\ Return(c, IF call[c].op = "get_bonk_balance"
                 THEN get_bonk_balance(call[c].user, reply)
                 ELSE get_stake_balance(call[c].user, reply))
   
          /\ UNCHANGED <<receipts, tokens, call, loc, rpc, lastIx, lastPda, built, derived, extWrites>>

\* Faulty variant of ScanLimit: the scan ends one nonce early.
ScanLimitShort == 100 - 1

\* get_user_stakes scans 0..100
ScanLimit == 100

\* accounts.rs: the StakeInfo get_user_stakes pushes
StakeInfo(receipt_address, nonce) ==
    [receipt_address |-> receipt_address, nonce |-> nonce, amount |-> 0,
     lock_duration |-> 0, created_at |-> 0, unlock_at |-> 0]

\* get_user_stakes, up to the first get_account
StakesCall(c, user) ==
    /\ pc[c] = "idle"
    /\ call' = [call EXCEPT ![c] = [NoCall EXCEPT !.op = "get_user_stakes", !.user = user]]
    /\ pc' = [pc EXCEPT ![c] = "scan"]
    /\ loc' = [loc EXCEPT ![c] = NoLoc]
    /\ rpc' = [rpc EXCEPT ![c] = <<ProbeRequest(0)>>]
    /\ result' = [result EXCEPT ![c] = NoResult]
    /\ UNCHANGED <<receipts, tokens, lastIx, lastPda, built, derived, extWrites>>

\* get_user_stakes: the reply to get_account for loc.nonce
StakesReply(c, transport_ok) ==
    /\ pc[c] = "scan"
    /\ LET nonce == loc[c].nonce
           receipt_pda == derive_stake_deposit_receipt(call[c].user, BONK_STAKE_POOL,
                                                       U32(nonce))[1]
           stakes == IF GetAccountIsErr(receipt_pda, transport_ok)
                     THEN loc[c].stakes
                     ELSE Append(loc[c].stakes, StakeInfo(receipt_pda, U32(nonce)))
       IN  IF nonce + 1 < ScanLimit
           THEN /\ loc' = [loc EXCEPT ![c].nonce = nonce + 1, ![c].stakes = stakes]
                /\ rpc' = [rpc EXCEPT ![c] = Append(@, ProbeRequest(nonce + 1))]
                /\ UNCHANGED <<pc, result>>
           ELSE /\ Return(c, OkStakes(stakes))
                /\ loc' = [loc EXCEPT ![c].stakes = stakes]
                /\ UNCHANGED rpc
    /\ UNCHANGED <<receipts, tokens, call, lastIx, lastPda, built, derived, extWrites>>

\* send_transaction: the reply to get_latest_blockhash
BlockhashReply(c, transport_ok) ==
    /\ pc[c] = "blockhash"
    /\ IF transport_ok
       THEN /\ pc' = [pc EXCEPT ![c] = "send"]
            /\ rpc' = [rpc EXCEPT ![c] = Append(@, Request("send_and_confirm_transaction", -1))]
            /\ UNCHANGED result
       ELSE \* `?`: From<ClientError>
            /\ Return(c, ErrFrom("ClientError",
                                 ClientErrorValue("get_latest_blockhash", "transport")))
            /\ UNCHANGED rpc
    /\ UNCHANGED <<receipts, tokens, call, loc, lastIx, lastPda, built, derived, extWrites>>

---------------------------------------------------------------------------
(* The network's execution of a submitted transaction: the instructions    *)
(* are applied in order and the transaction takes effect as a whole or not *)
(* at all.  The deposit is the staking program's: it creates the receipt   *)
(* account named by the instruction unless that account exists already,    *)
(* and moves `amount` out of the source token account.                     *)

\* uN::from_le_bytes
FromLeBytes(b) ==
    LET k == Len(b) \div 2
    IN  [j \in 1..k |-> b[2 * (k - j) + 1] + 256 * b[2 * (k - j) + 2]]

Slice(b, from, to) == [i \in 1..(to - from + 1) |-> b[from + i - 1]]

Chain(rc, tk) == [ok |-> TRUE, receipts |-> rc, tokens |-> tk]
Rejected == [ok |-> FALSE, receipts |-> {}, tokens |-> << >>]

SetToken(tk, key, n) == [a \in DOMAIN tk \cup {key} |-> IF a = key THEN n ELSE tk[a]]

\* The associated-token-account program, idempotent create.
ExecuteCreateAta(ch, ix) ==
    LET ata == ix.accounts[2].pubkey
    IN  IF ata \in DOMAIN ch.tokens THEN ch ELSE Chain(ch.receipts, SetToken(ch.tokens, ata, 0))

\* The staking program's deposit.
ExecuteDeposit(ch, ix) ==
    LET nonce == FromLeBytes(Slice(ix.data, 9, 12))
        amount == FromLeBytes(Slice(ix.data, 13, 20))
        owner == ix.accounts[2].pubkey
        from == ix.accounts[3].pubkey
        destination == ix.accounts[6].pubkey
        stake_pool == ix.accounts[7].pubkey
        receipt == ix.accounts[8].pubkey
    IN  IF /\ Len(ix.data) = 28
           /\ Slice(ix.data, 1, 8) = DepositDiscriminator
           /\ Len(ix.accounts) = 12
           /\ receipt = derive_stake_deposit_receipt(owner, stake_pool, nonce)[1]
           /\ receipt \notin ch.receipts
           /\ from \in DOMAIN ch.tokens
           /\ destination \in DOMAIN ch.tokens
           /\ amount[1] = 0 /\ amount[2] = 0
           /\ U64Small(amount) <= ch.tokens[from]
        THEN Chain(ch.receipts \cup {receipt},
                   SetToken(SetToken(ch.tokens, from, ch.tokens[from] - U64Small(amount)),
                            destination, ch.tokens[destination] + U64Small(amount)))
        ELSE Rejected

ExecuteInstruction(ch, ix) ==
    IF ~ch.ok THEN ch
    ELSE IF ix.program_id = ComputeBudgetProgramId THEN ch
    ELSE IF ix.program_id = AssociatedTokenProgramId THEN ExecuteCreateAta(ch, ix)
    ELSE IF ix.program_id = BONK_STAKE_PROGRAM_ID THEN ExecuteDeposit(ch, ix)
    ELSE Rejected

RECURSIVE ExecuteAll(_, _)
ExecuteAll(ch, ixs) ==
    IF ixs = <<>> THEN ch ELSE ExecuteAll(ExecuteInstruction(ch, Head(ixs)), Tail(ixs))

ExecuteTransaction(instructions) == ExecuteAll(Chain(receipts, tokens), instructions)

\* Faulty variant of SendReply: after a rejected submission the nonce scan
\* resumes behind the rejected nonce.
SendReplyReprobing(c, delivery) ==
    /\ pc[c] = "send"
    /\ LET ch == ExecuteTransaction(loc[c].instructions)
           applied == delivery # "lost" /\ ch.ok
           next == U64Small(<<0, 0>> \o loc[c].stake_nonce) + 1
       IN  /\ receipts' = IF applied THEN ch.receipts ELSE receipts
           /\ tokens' = IF applied THEN ch.tokens ELSE tokens
           /\ IF applied /\ delivery = "confirmed"
              THEN Return(c, Ok) /\ UNCHANGED <<loc, rpc>>
              ELSE IF delivery = "confirmed" /\ next < ProbeLimit
              THEN /\ pc' = [pc EXCEPT ![c] = "probe"]
                   /\ loc' = [loc EXCEPT ![c].nonce = next]
                   /\ rpc' = [rpc EXCEPT ![c] = Append(@, ProbeRequest(next))]
                   /\ UNCHANGED result
              ELSE /\ Return(c, ErrText("TransactionFailed", "transport"))
                   /\ UNCHANGED <<loc, rpc>>
    /\ UNCHANGED <<call, lastIx, lastPda, built, derived, extWrites>>

\* Faulty variant of SendReply: a failed submission starts send_transaction again.
SendReplyRetrying(c, delivery) ==
    /\ pc[c] = "send"
    /\ LET ch == ExecuteTransaction(loc[c].instructions)
           applied == delivery # "lost" /\ ch.ok
       IN  /\ receipts' = IF applied THEN ch.receipts ELSE receipts
           /\ tokens' = IF applied THEN ch.tokens ELSE tokens
           /\ IF applied /\ delivery = "confirmed"
              THEN Return(c, Ok) /\ UNCHANGED rpc
              ELSE /\ pc' = [pc EXCEPT ![c] = "blockhash"]
                   /\ rpc' = [rpc EXCEPT ![c] = Append(@, Request("get_latest_blockhash", -1))]
                   /\ UNCHANGED result
    /\ UNCHANGED <<call, loc, lastIx, lastPda, built, derived, extWrites>>

\* send_transaction: the outcome of send_and_confirm_transaction.  delivery:
\* "lost" (the call fails, nothing reached the network), "confirmed" (the
\* network ran the transaction and the client saw its outcome), "unconfirmed"
\* (the network ran it, the call failed before confirming).
SendReply(c, delivery) ==
    /\ pc[c] = "send"
    /\ LET ch == ExecuteTransaction(loc[c].instructions)
           applied == delivery # "lost" /\ ch.ok
       IN  /\ receipts' = IF applied THEN ch.receipts ELSE receipts
           /\ tokens' = IF applied THEN ch.tokens ELSE tokens
           /\ IF applied /\ delivery = "confirmed"
              THEN Return(c, Ok)
              ELSE \* map_err(|e| TransactionFailed(e.to_string()))
                   Return(c, ErrText("TransactionFailed",
                                 ErrorToString(ClientErrorValue("send_and_confirm_transaction",
                                     IF delivery = "confirmed" THEN "program"
                                     ELSE "transport"))))
    /\ UNCHANGED <<call, loc, rpc, lastIx, lastPda, built, derived, extWrites>>

\* The caller has taken the result; the client is free for the next call.
Finish(c) ==
    /\ pc[c] = "done"
    /\ pc' = [pc EXCEPT ![c] = "idle"]
    /\ call' = [call EXCEPT ![c] = NoCall]
    /\ loc' = [loc EXCEPT ![c] = NoLoc]
    /\ result' = [result EXCEPT ![c] = NoResult]
    /\ rpc' = [rpc EXCEPT ![c] = <<>>]
    /\ UNCHANGED <<receipts, tokens, lastIx, lastPda, built, derived, extWrites>>

---------------------------------------------------------------------------
(* bin/stake.rs and bin/quick_stake.rs: main() of the two command-line     *)
(* programs, one action per RPC reply.  Their result is what main returns  *)
(* (Ok(()) with the outcome it printed as text, or the error of a `?`).    *)

Programs == {"bin/stake", "bin/quick_stake"}

IsCli(c) == call[c].op \in Programs

\* Faulty variant of Sentinel: the last nonce probed.
SentinelLastProbed == 100 - 1

\* for nonce in 0..100 { ... } 100: the bound of the scan and the value after it
CliProbeLimit == 100
Sentinel == 100

\* BONK has 5 decimals: (amount_bonk * 100_000.0) as u64, ui_amount
LamportsPerBonk == 100000

\* bin/stake.rs: the menu choice; bin/quick_stake.rs: the months.  -1: rejected.
DurationSeconds(program, selection) ==
    IF program = "bin/stake"
    THEN CASE selection = 1 -> 30 * 24 * 60 * 60
           [] selection = 2 -> 90 * 24 * 60 * 60
           [] selection = 3 -> 180 * 24 * 60 * 60
           [] selection = 4 -> 365 * 24 * 60 * 60
           [] OTHER -> -1
    ELSE CASE selection = 1 -> 30 * 24 * 60 * 60
           [] selection = 3 -> 90 * 24 * 60 * 60
           [] selection = 6 -> 180 * 24 * 60 * 60
           [] selection = 12 -> 365 * 24 * 60 * 60
           [] OTHER -> -1

OkText(text) == [NoResult EXCEPT !.kind = "Ok", !.text = text]

\* build_deposit_transaction(&payer, &config, recent_blockhash): the deposit
\* instruction of the encoder for the configured amount, duration and nonce.
build_deposit_transaction(payer, config) ==
    << build_stake_instruction(payer, config.amount, config.lockup_duration, config.nonce) >>

\* main(), from its start to its first RPC request (or to an early return).
CliCall(c, program, payer, amount_bonk, selection, confirm, keypair_ok) ==
    /\ pc[c] = "idle"
    /\ program \in Programs
    /\ call' = [call EXCEPT ![c] = [NoCall EXCEPT !.op = program, !.user = payer,
                                                  !.bonk = amount_bonk, !.days = selection,
                                                  !.confirm = confirm]]
    /\ loc' = [loc EXCEPT ![c] = NoLoc]
    /\ IF program = "bin/quick_stake" /\ DurationSeconds(program, selection) = -1
       THEN Return(c, OkText("Invalid duration")) /\ rpc' = [rpc EXCEPT ![c] = <<>>]
       ELSE IF ~keypair_ok
       THEN Return(c, Err("KeypairError")) /\ rpc' = [rpc EXCEPT ![c] = <<>>]
       ELSE IF program = "bin/quick_stake"
       THEN /\ pc' = [pc EXCEPT ![c] = "cli_probe"]
            /\ rpc' = [rpc EXCEPT ![c] = <<ProbeRequest(0)>>]
            /\ result' = [result EXCEPT ![c] = NoResult]
       ELSE /\ pc' = [pc EXCEPT ![c] = "cli_sol"]
            /\ rpc' = [rpc EXCEPT ![c] = <<Request("get_balance", -1)>>]
            /\ result' = [result EXCEPT ![c] = NoResult]
    /\ UNCHANGED <<receipts, tokens, lastIx, lastPda, built, derived, extWrites>>

\* bin/stake.rs: the reply to get_balance; sol is the balance in lamports, or
\* -1 when the call fails.
CliSolReply(c, sol) ==
    /\ pc[c] = "cli_sol"
    /\ IF sol = -1
       THEN /\ Return(c, ErrFrom("ClientError", ClientErrorValue("get_balance", "transport")))
            /\ UNCHANGED <<loc, rpc>>
       ELSE /\ pc' = [pc EXCEPT ![c] = "cli_bonk"]
            /\ loc' = [loc EXCEPT ![c].sol_balance = sol]
            /\ rpc' = [rpc EXCEPT ![c] = Append(@, BalanceRequest)]
            /\ UNCHANGED result
    /\ UNCHANGED <<receipts, tokens, call, lastIx, lastPda, built, derived, extWrites>>

\* bin/stake.rs: the reply to get_token_account_balance, the checks of the two
\* balances, of the amount and of the menu choice.
CliBonkReply(c, reply) ==
    /\ pc[c] = "cli_bonk"
    /\ LET r == GetTokenAccountBalance(get_user_bonk_ata(call[c].user), reply)
           \* ui_amount.unwrap_or(0.0), in lamports
           bonk_balance == IF r.ok /\ ParseU64(r.amount) # -1 THEN ParseU64(r.amount) ELSE 0
           amount == call[c].bonk * LamportsPerBonk
           secs == DurationSeconds(call[c].op, call[c].days)
           stop(text) == Return(c, OkText(text)) /\ UNCHANGED <<loc, rpc>>
       IN  IF loc[c].sol_balance < 10000000 THEN stop("Insufficient SOL")
           ELSE IF bonk_balance < LamportsPerBonk THEN stop("Insufficient BONK")
           ELSE IF amount <= 0 \/ amount > bonk_balance THEN stop("Invalid amount")
           ELSE IF secs = -1 THEN stop("Invalid choice")
           ELSE /\ pc' = [pc EXCEPT ![c] = "cli_probe"]
                /\ loc' = [loc EXCEPT ![c].bonk_balance = U64(bonk_balance)]
                /\ rpc' = [rpc EXCEPT ![c] = Append(@, ProbeRequest(0))]
                /\ UNCHANGED result
    /\ UNCHANGED <<receipts, tokens, call, lastIx, lastPda, built, derived, extWrites>>

\* main() after the nonce scan returned `nonce`: the confirmation (bin/stake.rs),
\* the StakeConfig and the blockhash request.
CliAfterScan(c, nonce) ==
    IF call[c].op = "bin/stake" /\ ~call[c].confirm
    THEN /\ Return(c, OkText("Cancelled"))
         /\ loc' = [loc EXCEPT ![c].stake_nonce = U32(nonce)]
         /\ UNCHANGED rpc
    ELSE /\ pc' = [pc EXCEPT ![c] = "cli_blockhash"]
         /\ loc' = [loc EXCEPT ![c].stake_nonce = U32(nonce),
                               ![c].lock_duration_seconds =
                                   DurationSeconds(call[c].op, call[c].days)]
         /\ rpc' = [rpc EXCEPT ![c] = Append(@, Request("get_latest_blockhash", -1))]
         /\ UNCHANGED result

\* find_available_nonce / find_next_available_nonce of the two programs: the
\* reply to get_account for loc.nonce.
CliProbeReply(c, transport_ok) ==
    /\ pc[c] = "cli_probe"
    /\ LET nonce == loc[c].nonce
           receipt_pda == derive_stake_deposit_receipt(call[c].user, BONK_STAKE_POOL,
                                                       U32(nonce))[1]
       IN  IF GetAccountIsErr(receipt_pda, transport_ok)
           THEN CliAfterScan(c, nonce)
           ELSE IF nonce + 1 < CliProbeLimit
           THEN /\ loc' = [loc EXCEPT ![c].nonce = nonce + 1]
                /\ rpc' = [rpc EXCEPT ![c] = Append(@, ProbeRequest(nonce + 1))]
                /\ UNCHANGED <<pc, result>>
           ELSE CliAfterScan(c, Sentinel)
    /\ UNCHANGED <<receipts, tokens, call, lastIx, lastPda, built, derived, extWrites>>

\* main(): the reply to get_latest_blockhash, then build_deposit_transaction
CliBlockhashReply(c, transport_ok) ==
    /\ pc[c] = "cli_blockhash"
    /\ IF transport_ok
       THEN /\ pc' = [pc EXCEPT ![c] = "cli_send"]
            /\ loc' = [loc EXCEPT ![c].instructions =
                           build_deposit_transaction(call[c].user,
                               [amount |-> U64(call[c].bonk * LamportsPerBonk),
                                lockup_duration |-> U64(loc[c].lock_duration_seconds),
                                nonce |-> loc[c].stake_nonce])]
            /\ rpc' = [rpc EXCEPT ![c] = Append(@, Request("send_and_confirm_transaction", -1))]
            /\ UNCHANGED result
       ELSE /\ Return(c, ErrFrom("ClientError",
                                 ClientErrorValue("get_latest_blockhash", "transport")))
            /\ UNCHANGED <<loc, rpc>>
    /\ UNCHANGED <<receipts, tokens, call, lastIx, lastPda, built, derived, extWrites>>

\* main(): the outcome of send_and_confirm_transaction, printed; main returns Ok(()).
CliSendReply(c, delivery) ==
    /\ pc[c] = "cli_send"
    /\ LET ch == ExecuteTransaction(loc[c].instructions)
           applied == delivery # "lost" /\ ch.ok
       IN  /\ receipts' = IF applied THEN ch.receipts ELSE receipts
           /\ tokens' = IF applied THEN ch.tokens ELSE tokens
           /\ Return(c, OkText(IF applied /\ delivery = "confirmed"
                               THEN "SUCCESS" ELSE "FAILED"))
    /\ UNCHANGED <<call, loc, rpc, lastIx, lastPda, built, derived, extWrites>>

---------------------------------------------------------------------------
(* Other parties writing to the chain, and direct calls of the two pure    *)
(* functions.                                                              *)

MaxExtWrites == 1

\* Another client of the same owner has its deposit with nonce n executed.
ExternalDeposit(n) ==
    /\ extWrites < MaxExtWrites
    /\ LET receipt == ReceiptAddress(FixtureOwner, n)
       IN  /\ receipt \notin receipts
           /\ receipts' = receipts \cup {receipt}
    /\ extWrites' = extWrites + 1
    /\ UNCHANGED <<tokens, pc, call, loc, result, rpc, lastIx, lastPda, built, derived>>

\* A direct call derive_stake_deposit_receipt(owner, stake_pool, nonce).
DeriveCall(owner, stake_pool, nonce) ==
    /\ lastPda' = [in |-> <<owner, stake_pool, nonce>>,
                   out |-> derive_stake_deposit_receipt(owner, stake_pool, nonce)]
    /\ UNCHANGED <<receipts, tokens, pc, call, loc, result, rpc, lastIx, built, extWrites>>

\* A direct call build_stake_instruction(user, amount, lock_duration, nonce).
BuildCall(user, amount, lock_duration, nonce) ==
    /\ lastIx' = [in |-> <<user, amount, lock_duration, nonce>>,
                  out |-> build_stake_instruction(user, amount, lock_duration, nonce)]
    /\ UNCHANGED <<receipts, tokens, pc, call, loc, result, rpc, lastPda, derived, extWrites>>

NoPda == [in |-> <<>>, out |-> <<>>]
NoLock == [in |-> <<>>, out |-> <<>>]
NoIx == [in |-> <<>>, out |-> [program_id |-> <<>>, accounts |-> <<>>, data |-> <<>>]]

---------------------------------------------------------------------------
(* accounts.rs: StakeInfo::is_locked and StakeInfo::remaining_lock_time.   *)
(* An i64 is its 64 two's-complement bits in base 65536, as a u64 is.      *)

\* The i64 of an integer n with -2^31 < n < 2^31.
I64(n) == IF n >= 0 THEN U64(n) ELSE [i \in 1..4 |-> 65535 - U64(-n - 1)[i]]

I64Zero == I64(0)
I64Min == <<32768, 0, 0, 0>>
I64Max == <<32767, 65535, 65535, 65535>>

IsNegative(a) == a[1] >= 32768

\* a < b for two i64
I64Less(a, b) ==
    IF IsNegative(a) # IsNegative(b) THEN IsNegative(a) ELSE DigitsLess(a, b)

\* i64::wrapping_sub: the low 64 bits of a - b
WrappingSub(a, b) ==
    LET d4 == a[4] - b[4]
        b4 == IF d4 < 0 THEN 1 ELSE 0
        d3 == a[3] - b[3] - b4
        b3 == IF d3 < 0 THEN 1 ELSE 0
        d2 == a[2] - b[2] - b3
        b2 == IF d2 < 0 THEN 1 ELSE 0
        d1 == a[1] - b[1] - b2
    IN  << d1 % Digit, d2 % Digit, d3 % Digit, d4 % Digit >>

\* a - b does not fit an i64
SubOverflows(a, b) ==
    /\ IsNegative(a) # IsNegative(b)
    /\ IsNegative(WrappingSub(a, b)) # IsNegative(a)

\* i64::max(self, 0)
MaxZero(a) == IF IsNegative(a) THEN I64Zero ELSE a

\* pub fn is_locked(&self, current_time: i64) -> bool
is_locked(self, current_time) == I64Less(current_time, self.unlock_at)

\* What a call that may panic gives: the value, or the panic.
Returned(value) == [panicked |-> FALSE, value |-> value]
Panicked == [panicked |-> TRUE, value |-> I64Zero]

\* pub fn remaining_lock_time(&self, current_time: i64) -> i64:
\* (self.unlock_at - current_time).max(0).  The `-` panics on overflow in a
\* build with overflow checks (the dev profile) and wraps in one without (the
\* release profile).
remaining_lock_time(self, current_time, overflow_checks) ==
    IF SubOverflows(self.unlock_at, current_time)
    THEN IF overflow_checks THEN Panicked
         ELSE Returned(MaxZero(WrappingSub(self.unlock_at, current_time)))
    ELSE Returned(MaxZero(WrappingSub(self.unlock_at, current_time)))

\* A direct call of both methods on a StakeInfo with the given unlock_at.
LockCall(unlock_at, current_time, overflow_checks) ==
    /\ LET info == [StakeInfo(FixtureReceipt1, U32(1)) EXCEPT !.unlock_at = unlock_at]
       IN  lastLock' =
              [in |-> <<unlock_at, current_time>>,
               out |-> [is_locked |-> is_locked(info, current_time),
                        remaining |-> remaining_lock_time(info, current_time,
                                                          overflow_checks)]]
    /\ UNCHANGED <<receipts, tokens, pc, call, loc, result, rpc, lastIx, lastPda, built,
                   derived, extWrites, failed>>

---------------------------------------------------------------------------
(* Spec: one client running stake() calls one after the other against a    *)
(* chain that another party may write to.                                  *)

OtherUser ==
  <<7, 7, 7, 7, 7, 7, 7, 7, 7, 7, 7, 7, 7, 7, 7, 7,
    7, 7, 7, 7, 7, 7, 7, 7, 7, 7, 7, 7, 7, 7, 7, 7>>

U32Max == <<65535, 65535>>
U64Max == <<65535, 65535, 65535, 65535>>

InitNonceSets == {{}, 0..3, 0..99, {1, 2}, (0..3) \cup {7}}
InitBalances == {0, 5, 10}

StakeAmounts == {U64(0), U64(5), U64(10), <<0, 1, 0, 0>>}
StakeDays == {0, 30, 45, 90, 180, 365, 366}
StakeNonces == {NoNonce, SomeNonce(U32(0)), SomeNonce(U32(4)), SomeNonce(U32(100)),
                SomeNonce(U32Max)}
ExtNonces == {0, 4, 5}

ReceiptsOf(S) == {ReceiptAddress(FixtureOwner, n) : n \in S}

TokensOf(user, balance) == [a \in {get_user_bonk_ata(user)} |-> balance]

InitClient ==
    /\ pc = [c \in Callers |-> "idle"]
    /\ call = [c \in Callers |-> NoCall]
    /\ loc = [c \in Callers |-> NoLoc]
    /\ result = [c \in Callers |-> NoResult]
    /\ rpc = [c \in Callers |-> <<>>]
    /\ lastIx = NoIx
    /\ lastPda = NoPda
    /\ built = {}
    /\ derived = {}
    /\ extWrites = 0
    /\ failed = [c \in Callers |-> FALSE]
    /\ lastLock = NoLock

Init ==
    /\ InitClient
    /\ \E S \in InitNonceSets : receipts = ReceiptsOf(S)
    /\ \/ tokens = << >>
       \/ \E b \in InitBalances : tokens = TokensOf(FixtureOwner, b)

Next ==
    \/ \E a \in StakeAmounts, d \in StakeDays, n \in StakeNonces :
          StakeCall(1, FixtureOwner, a, d, n) /\ UNCHANGED <<failed, lastLock>>
    \/ \E t \in BOOLEAN : ProbeReply(1, t) /\ UNCHANGED <<failed, lastLock>>
    \/ \E r \in {"ok", "fail", "garbage"} : BalanceReply(1, r) /\ UNCHANGED <<failed, lastLock>>
    \/ \E t \in BOOLEAN : BlockhashReply(1, t) /\ UNCHANGED <<failed, lastLock>>
    \/ \E d \in {"lost", "confirmed", "unconfirmed"} : SendReply(1, d)
          /\ UNCHANGED <<failed, lastLock>>
    \/ Finish(1) /\ UNCHANGED <<failed, lastLock>>
    \/ \E n \in ExtNonces : ExternalDeposit(n) /\ UNCHANGED <<failed, lastLock>>

Spec == Init /\ [][Next]_vars

---------------------------------------------------------------------------
(* SpecPure: direct calls of the two pure functions over inputs that reach *)
(* every byte of each integer.                                             *)

PureOwners == {FixtureOwner, OtherUser}
PurePools == {BONK_STAKE_POOL, BONK_VAULT}
PureNonces == {U32(0), U32(1), U32(2), U32(258), <<258, 772>>, U32Max}
PureBuildNonces == {U32(1), <<258, 772>>, U32Max}
PureAmounts == {U64(0), U64(1000000), <<258, 772, 1286, 1800>>, U64Max}
PureDurations == {U64(15552000), U64(45 * 24 * 60 * 60), <<2057, 1543, 1029, 515>>}

InitPure ==
    /\ InitClient
    /\ receipts = {}
    /\ tokens = << >>

NextPure ==
    \/ \E o \in PureOwners, p \in PurePools, n \in PureNonces :
          DeriveCall(o, p, n) /\ UNCHANGED <<derived, failed, lastLock>>
    \/ \E u \in PureOwners, a \in PureAmounts, d \in PureDurations, n \in PureBuildNonces :
          BuildCall(u, a, d, n) /\ UNCHANGED <<built, failed, lastLock>>

SpecPure == InitPure /\ [][NextPure]_vars

---------------------------------------------------------------------------
(* SpecHist: direct calls of the two pure functions interleaved with       *)
(* stake() calls and with writes to the chain, every direct call's input   *)
(* and output recorded together with the number of receipts on the chain   *)
(* at the time of the call.                                                *)

MaxObserved == 2

Observation(entry) == [in |-> entry.in, out |-> entry.out, writes |-> Cardinality(receipts)]

HistNonces == {U32(0), U32(1)}
HistAmounts == {U64(5)}
HistStakeNonces == {NoNonce, SomeNonce(U32(1))}

InitHist ==
    /\ InitClient
    /\ receipts \in {ReceiptsOf({}), ReceiptsOf({0})}
    /\ tokens = TokensOf(FixtureOwner, 10)

NextHist ==
    \/ \E n \in HistNonces :
          /\ Cardinality(derived) + Cardinality(built) < MaxObserved
          /\ DeriveCall(FixtureOwner, BONK_STAKE_POOL, n)
          /\ derived' = derived \cup {Observation(lastPda')}
          /\ UNCHANGED <<failed, lastLock>>
    \/ \E a \in HistAmounts, n \in HistNonces :
          /\ Cardinality(derived) + Cardinality(built) < MaxObserved
          /\ BuildCall(FixtureOwner, a, U64(30 * 24 * 60 * 60), n)
          /\ built' = built \cup {Observation(lastIx')}
          /\ UNCHANGED <<failed, lastLock>>
    \/ \E a \in HistAmounts, n \in HistStakeNonces :
          StakeCall(1, FixtureOwner, a, 30, n) /\ UNCHANGED <<failed, lastLock>>
    \/ \E t \in BOOLEAN : ProbeReply(1, t) /\ UNCHANGED <<failed, lastLock>>
    \/ \E r \in {"ok", "fail"} : BalanceReply(1, r) /\ UNCHANGED <<failed, lastLock>>
    \/ \E t \in BOOLEAN : BlockhashReply(1, t) /\ UNCHANGED <<failed, lastLock>>
    \/ \E d \in {"lost", "confirmed"} : SendReply(1, d) /\ UNCHANGED <<failed, lastLock>>
    \/ Finish(1) /\ UNCHANGED <<failed, lastLock>>
    \/ \E n \in {0, 1} : ExternalDeposit(n) /\ UNCHANGED <<failed, lastLock>>

SpecHist == InitHist /\ [][NextHist]_vars

---------------------------------------------------------------------------
(* SpecQuery: one client running its four public operations one after the *)
(* other, with a record of whether an RPC call of the running operation    *)
(* failed in transport.  A get_account may fail in transport only at the   *)
(* loop iterations FailAt.                                                 *)

\* The running operation of c has (or has not) just seen a transport failure.
Fault(c, happened) == failed' = [failed EXCEPT ![c] = @ \/ happened]

QueryNonceSets == {{}, 0..3, {1, 2, 100}, 0..99}
FailAt == {0, 2, 99}

QueryTokens ==
    { << >>,
      TokensOf(FixtureOwner, 5),
      [a \in {get_user_bonk_ata(FixtureOwner), get_user_stake_ata(FixtureOwner)} |->
          IF a = get_user_bonk_ata(FixtureOwner) THEN 10 ELSE 7] }

InitQuery ==
    /\ InitClient
    /\ \E S \in QueryNonceSets : receipts = ReceiptsOf(S)
    /\ tokens \in QueryTokens

NextQuery ==
    \/ \E op \in {"get_bonk_balance", "get_stake_balance"} :
          BalanceCall(1, op, FixtureOwner) /\ UNCHANGED <<failed, lastLock>>
    \/ \E r \in {"ok", "fail", "garbage"} : QueryReply(1, r) /\ Fault(1, r = "fail")
          /\ UNCHANGED lastLock
    \/ StakesCall(1, FixtureOwner) /\ UNCHANGED <<failed, lastLock>>
    \/ \E t \in BOOLEAN :
          (t \/ loc[1].nonce \in FailAt) /\ StakesReply(1, t) /\ Fault(1, ~t)
                /\ UNCHANGED lastLock
    \/ StakeCall(1, FixtureOwner, U64(5), 30, NoNonce) /\ UNCHANGED <<failed, lastLock>>
    \/ \E t \in BOOLEAN :
          (t \/ loc[1].nonce \in FailAt) /\ ProbeReply(1, t) /\ Fault(1, ~t)
                /\ UNCHANGED lastLock
    \/ \E r \in {"ok", "fail", "garbage"} : BalanceReply(1, r) /\ Fault(1, r = "fail")
          /\ UNCHANGED lastLock
    \/ \E t \in BOOLEAN : BlockhashReply(1, t) /\ Fault(1, ~t) /\ UNCHANGED lastLock
    \/ \E d \in {"lost", "confirmed", "unconfirmed"} :
          SendReply(1, d) /\ Fault(1, d # "confirmed") /\ UNCHANGED lastLock
    \/ Finish(1) /\ failed' = [failed EXCEPT ![1] = FALSE] /\ UNCHANGED lastLock
    \/ \E n \in {4} : ExternalDeposit(n) /\ UNCHANGED <<failed, lastLock>>

SpecQuery == InitQuery /\ [][NextQuery]_vars

---------------------------------------------------------------------------
(* SpecRace: two callers staking for the same owner with auto-selected     *)
(* nonce, the replies to their RPC requests arriving in any order.         *)

RaceNonceSets == {{}, {0, 1}}

InitRace ==
    /\ InitClient
    /\ \E S \in RaceNonceSets : receipts = ReceiptsOf(S)
    /\ tokens = TokensOf(FixtureOwner, 10)

NextRace ==
    \E c \in Callers :
        \/ StakeCall(c, FixtureOwner, U64(5), 30, NoNonce) /\ UNCHANGED <<failed, lastLock>>
        \/ \E t \in BOOLEAN : ProbeReply(c, t) /\ UNCHANGED <<failed, lastLock>>
        \/ \E r \in {"ok", "fail"} : BalanceReply(c, r) /\ UNCHANGED <<failed, lastLock>>
        \/ \E t \in BOOLEAN : BlockhashReply(c, t) /\ UNCHANGED <<failed, lastLock>>
        \/ \E d \in {"lost", "confirmed", "unconfirmed"} : SendReply(c, d)
              /\ UNCHANGED <<failed, lastLock>>
        \/ Finish(c) /\ UNCHANGED <<failed, lastLock>>

SpecRace == InitRace /\ [][NextRace]_vars

---------------------------------------------------------------------------
(* SpecLayers: direct calls of build_stake_instruction and stake() calls   *)
(* over the same amounts and lock durations, accepted and not.             *)

LayerAmounts == {U64(0), U64(5)}
LayerDays == {0, 30, 45, 365}
LayerSeconds == {U64(0), U64(30 * 24 * 60 * 60), U64(45 * 24 * 60 * 60), U64(1), U64Max}

InitLayers ==
    /\ InitClient
    /\ receipts \in {ReceiptsOf({}), ReceiptsOf({4})}
    /\ tokens = TokensOf(FixtureOwner, 10)

NextLayers ==
    \/ \E a \in LayerAmounts, d \in LayerSeconds :
          BuildCall(FixtureOwner, a, d, U32(4)) /\ UNCHANGED <<built, failed, lastLock>>
    \/ \E a \in LayerAmounts, d \in LayerDays :
          StakeCall(1, FixtureOwner, a, d, SomeNonce(U32(4))) /\ UNCHANGED <<failed, lastLock>>
    \/ \E r \in {"ok", "fail"} : BalanceReply(1, r) /\ UNCHANGED <<failed, lastLock>>
    \/ \E t \in BOOLEAN : BlockhashReply(1, t) /\ UNCHANGED <<failed, lastLock>>
    \/ \E d \in {"lost", "confirmed"} : SendReply(1, d) /\ UNCHANGED <<failed, lastLock>>
    \/ Finish(1) /\ UNCHANGED <<failed, lastLock>>

SpecLayers == InitLayers /\ [][NextLayers]_vars

---------------------------------------------------------------------------
(* SpecCli: the two command-line programs and the library's stake() run    *)
(* one after the other on chains where the receipts of the nonces 0..99    *)
(* (or 0..100, or 0..3) exist, with a record of transport failures.  A     *)
(* get_account may fail in transport only at the loop iterations FailAt.   *)

CliNonceSets == {0..3, 0..99, 0..100}

CliTokens ==
    { TokensOf(FixtureOwner, 300000),
      [a \in {get_user_bonk_ata(FixtureOwner), get_user_stake_ata(FixtureOwner)} |->
          IF a = get_user_bonk_ata(FixtureOwner) THEN 300000 ELSE 0] }

InitCli ==
    /\ InitClient
    /\ \E S \in CliNonceSets : receipts = ReceiptsOf(S)
    /\ tokens \in CliTokens

NextCli ==
    \/ \E p \in Programs, a \in {0, 2, 5}, d \in {1, 2, 5}, y \in BOOLEAN, k \in BOOLEAN :
          CliCall(1, p, FixtureOwner, a, d, y, k) /\ UNCHANGED <<failed, lastLock>>
    \/ \E sol \in {-1, 5000000, 20000000} : CliSolReply(1, sol) /\ Fault(1, sol = -1)
          /\ UNCHANGED lastLock
    \/ \E r \in {"ok", "fail"} : CliBonkReply(1, r) /\ Fault(1, r = "fail")
          /\ UNCHANGED lastLock
    \/ \E t \in BOOLEAN :
          (t \/ loc[1].nonce \in FailAt) /\ CliProbeReply(1, t) /\ Fault(1, ~t)
                /\ UNCHANGED lastLock
    \/ \E t \in BOOLEAN : CliBlockhashReply(1, t) /\ Fault(1, ~t) /\ UNCHANGED lastLock
    \/ \E d \in {"lost", "confirmed", "unconfirmed"} :
          CliSendReply(1, d) /\ Fault(1, d # "confirmed") /\ UNCHANGED lastLock
    \/ StakeCall(1, FixtureOwner, U64(200000), 30, NoNonce) /\ UNCHANGED <<failed, lastLock>>
    \/ \E t \in BOOLEAN :
          (t \/ loc[1].nonce \in FailAt) /\ ProbeReply(1, t) /\ Fault(1, ~t)
                /\ UNCHANGED lastLock
    \/ \E r \in {"ok", "fail"} : BalanceReply(1, r) /\ Fault(1, r = "fail")
          /\ UNCHANGED lastLock
    \/ \E t \in BOOLEAN : BlockhashReply(1, t) /\ Fault(1, ~t) /\ UNCHANGED lastLock
    \/ \E d \in {"lost", "confirmed", "unconfirmed"} :
          SendReply(1, d) /\ Fault(1, d # "confirmed") /\ UNCHANGED lastLock
    \/ Finish(1) /\ failed' = [failed EXCEPT ![1] = FALSE] /\ UNCHANGED lastLock

SpecCli == InitCli /\ [][NextCli]_vars

---------------------------------------------------------------------------
(* SpecProbe: stake() calls with auto-selected nonce, one after the other, *)
(* any get_account answered truthfully or failing.  RpcClient's calls      *)
(* block until the reply or until the HTTP client's timeout, so a request  *)
(* in flight is always answered: weak fairness of the reply to a probe.    *)

ProbeNonceSets == {{}, 0..3, {1, 2}, 0..98, 0..99}

InitProbe ==
    /\ InitClient
    /\ \E S \in ProbeNonceSets : receipts = ReceiptsOf(S)
    /\ tokens = TokensOf(FixtureOwner, 10)

ProbeAnswered == \E t \in BOOLEAN : ProbeReply(1, t) /\ UNCHANGED <<failed, lastLock>>

NextProbe ==
    \/ StakeCall(1, FixtureOwner, U64(5), 30, NoNonce) /\ UNCHANGED <<failed, lastLock>>
    \/ ProbeAnswered
    \/ \E r \in {"ok", "fail"} : BalanceReply(1, r) /\ UNCHANGED <<failed, lastLock>>
    \/ \E t \in BOOLEAN : BlockhashReply(1, t) /\ UNCHANGED <<failed, lastLock>>
    \/ \E d \in {"lost", "confirmed", "unconfirmed"} : SendReply(1, d)
          /\ UNCHANGED <<failed, lastLock>>
    \/ Finish(1) /\ UNCHANGED <<failed, lastLock>>

SpecProbe == InitProbe /\ [][NextProbe]_vars /\ WF_vars(ProbeAnswered)

---------------------------------------------------------------------------
(* SpecSeq: one owner, starting without receipts, calls stake(.., None)    *)
(* again and again; nobody else writes to the chain and every get_account  *)
(* and balance query is answered, truthfully.  A blockhash request or a    *)
(* submission may still fail; `failed` records here, for the whole run,    *)
(* whether a submission was applied by the network while its call          *)
(* returned an error.                                                      *)

SeqBalances == {3, 150}

InitSeq ==
    /\ InitClient
    /\ receipts = {}
    /\ \E b \in SeqBalances : tokens = TokensOf(FixtureOwner, b)

NextSeq ==
    \/ StakeCall(1, FixtureOwner, U64(1), 30, NoNonce) /\ UNCHANGED <<failed, lastLock>>
    \/ ProbeReply(1, TRUE) /\ UNCHANGED <<failed, lastLock>>
    \/ BalanceReply(1, "ok") /\ UNCHANGED <<failed, lastLock>>
    \/ \E t \in BOOLEAN : BlockhashReply(1, t) /\ UNCHANGED <<failed, lastLock>>
    \/ \E d \in {"lost", "confirmed", "unconfirmed"} :
          SendReply(1, d) /\ Fault(1, d = "unconfirmed") /\ UNCHANGED lastLock
    \/ Finish(1) /\ UNCHANGED <<failed, lastLock>>

SpecSeq == InitSeq /\ [][NextSeq]_vars

---------------------------------------------------------------------------
(* SpecAgree: on a chain nobody writes to, caller 1 runs the nonce search  *)
(* (through stake(.., None), which stops at the balance check: the owner   *)
(* holds no BONK) and caller 2 runs get_user_stakes for the same owner,    *)
(* every get_account answered truthfully.                                  *)

AgreeNonceSets == {{}, {1, 2}, 0..3, (0..99) \ {50}, 0..99, 0..100}

InitAgree ==
    /\ InitClient
    /\ \E S \in AgreeNonceSets : receipts = ReceiptsOf(S)
    /\ tokens = << >>

NextAgree ==
    \/ StakeCall(1, FixtureOwner, U64(5), 30, NoNonce) /\ UNCHANGED <<failed, lastLock>>
    \/ ProbeReply(1, TRUE) /\ UNCHANGED <<failed, lastLock>>
    \/ BalanceReply(1, "ok") /\ UNCHANGED <<failed, lastLock>>
    \/ StakesCall(2, FixtureOwner) /\ UNCHANGED <<failed, lastLock>>
    \/ StakesReply(2, TRUE) /\ UNCHANGED <<failed, lastLock>>
    \/ \E c \in Callers : Finish(c) /\ UNCHANGED <<failed, lastLock>>

SpecAgree == InitAgree /\ [][NextAgree]_vars

---------------------------------------------------------------------------
(* SpecLock: direct calls of StakeInfo's two methods over i64 values from  *)
(* both ends of the range, around zero and around a present-day timestamp, *)
(* in builds with and without overflow checks.                             *)

LockTimes ==
    { I64Min, <<32768, 0, 0, 1>>, <<65535, 65534, 0, 0>>, I64(-15552000), I64(-1),
      I64Zero, I64(1), I64(1700000000), I64(1700000000 + 15552000), <<0, 1, 0, 0>>,
      <<32767, 65535, 65535, 65534>>, I64Max }

InitLock ==
    /\ InitClient
    /\ receipts = {}
    /\ tokens = << >>

NextLock ==
    \E unlock_at \in LockTimes, current_time \in LockTimes, overflow_checks \in BOOLEAN :
        LockCall(unlock_at, current_time, overflow_checks)

SpecLock == InitLock /\ [][NextLock]_vars

---------------------------------------------------------------------------
(* Properties.                                                             *)

\* `bytes` is the little-endian encoding of the integer with base-65536
\* digits `digits` (most significant first): byte k weighs 256^k.
IsLittleEndian(bytes, digits) ==
    /\ Len(bytes) = 2 * Len(digits)
    /\ \A i \in 1..Len(bytes) : bytes[i] \in 0..255
    /\ \A j \in 1..Len(digits) :
          bytes[2 * j - 1] + 256 * bytes[2 * j] = digits[Len(digits) + 1 - j]

\* C1 (SpecPure): for every nonce, amount and lock duration the data of the
\* instruction build_stake_instruction returns is 28 bytes long: the deposit
\* tag, then the nonce (4 bytes), the amount (8 bytes) and the lock duration
\* (8 bytes), each little-endian.
C1_DataLayout ==
    lastIx # NoIx =>
        LET data == lastIx.out.data
        IN  /\ Len(data) = 28
            /\ SubSeq(data, 1, 8) = <<242, 35, 198, 137, 82, 225, 242, 182>>
            /\ IsLittleEndian(SubSeq(data, 9, 12), lastIx.in[4])
            /\ IsLittleEndian(SubSeq(data, 13, 20), lastIx.in[2])
            /\ IsLittleEndian(SubSeq(data, 21, 28), lastIx.in[3])

\* An instruction was built for nonce 0x01020304 and amount 0x0102030405060708.
C1_Witness ==
    /\ lastIx.in = <<FixtureOwner, <<258, 772, 1286, 1800>>, U64(15552000), <<258, 772>> >>
    /\ SubSeq(lastIx.out.data, 9, 20) = <<4, 3, 2, 1, 8, 7, 6, 5, 4, 3, 2, 1>>

\* C2 (SpecPure): the account list of build_stake_instruction has exactly 12
\* entries: user, user, the user's BONK token account, the vault, the stake
\* mint, the user's stake-token account, the stake pool, the receipt address
\* derive_stake_deposit_receipt(user, BONK_STAKE_POOL, nonce) gives, the token
\* program, the rent sysvar, the system program, reward vault 0.
C2_AccountOrder ==
    lastIx # NoIx =>
        LET user == lastIx.in[1]
            nonce == lastIx.in[4]
            accounts == lastIx.out.accounts
        IN  /\ Len(accounts) = 12
            /\ [i \in 1..12 |-> accounts[i].pubkey] =
                  << user, user, get_user_bonk_ata(user), BONK_VAULT, BONK_STAKE_MINT,
                     get_user_stake_ata(user), BONK_STAKE_POOL,
                     derive_stake_deposit_receipt(user, BONK_STAKE_POOL, nonce)[1],
                     TokenProgramId, RentSysvarId, SystemProgramId, BONK_REWARD_VAULT_0 >>

\* An instruction was built for the other user with the largest nonce.
C2_Witness ==
    /\ lastIx # NoIx
    /\ lastIx.in[1] = OtherUser
    /\ lastIx.in[4] = U32Max
    /\ Len(lastIx.out.accounts) = 12
    /\ lastIx.out.accounts[8].pubkey =
           derive_stake_deposit_receipt(OtherUser, BONK_STAKE_POOL, U32Max)[1]
    /\ lastIx.out.accounts[8].pubkey # lastIx.out.accounts[3].pubkey

\* C3 (SpecPure): derive_stake_deposit_receipt hashes, under the staking
\* program's id, the owner's 32 bytes, the pool's 32 bytes, the nonce as 4
\* little-endian bytes and "stakeDepositReceipt", in this order; for the
\* fixture owner and pool it returns the pinned addresses for nonce 1 and 2.
C3_SeedsAndFixtures ==
    lastPda # NoPda =>
        LET owner == lastPda.in[1]
            pool == lastPda.in[2]
            nonce == lastPda.in[3]
            addr == lastPda.out[1]
            bump == lastPda.out[2]
            pinned == owner = FixtureOwner /\ pool = BONK_STAKE_POOL
        IN  IF pinned /\ nonce = <<0, 1>> THEN addr = FixtureReceipt1 /\ bump = 255
            ELSE IF pinned /\ nonce = <<0, 2>> THEN addr = FixtureReceipt2 /\ bump = 255
            ELSE /\ Len(addr) = 142
                 /\ addr[1] = -1
                 /\ SubSeq(addr, 2, 33) = owner
                 /\ SubSeq(addr, 34, 65) = pool
                 /\ IsLittleEndian(SubSeq(addr, 66, 69), nonce)
                 /\ SubSeq(addr, 70, 88) =
                        <<115, 116, 97, 107, 101, 68, 101, 112, 111, 115, 105, 116,
                          82, 101, 99, 101, 105, 112, 116>>
                 /\ addr[89] = bump
                 /\ SubSeq(addr, 90, 121) = BONK_STAKE_PROGRAM_ID
                 /\ SubSeq(addr, 122, 142) = PdaMarker

\* The derivation was called for the fixture owner and pool with nonce 1.
C3_Witness ==
    /\ lastPda.in = <<FixtureOwner, BONK_STAKE_POOL, U32(1)>>
    /\ lastPda.out[1] = FixtureReceipt1

IsStake(c) == call[c].op = "stake"

Issued(c, method) == \E i \in 1..Len(rpc[c]) : rpc[c][i].method = method

\* C6 (Spec): stake() with amount = 0 returns InvalidAmount and issues no
\* network call, whatever the duration and the nonce.
C6_ZeroAmount ==
    \A c \in Callers :
        IsStake(c) /\ call[c].amount = <<0, 0, 0, 0>> =>
            /\ pc[c] = "done"
            /\ result[c].kind = "InvalidAmount"
            /\ rpc[c] = <<>>

\* stake(0, 365 days, Some(4)) has returned InvalidAmount.
C6_Witness ==
    \E c \in Callers :
        /\ IsStake(c) /\ pc[c] = "done"
        /\ call[c].amount = <<0, 0, 0, 0>>
        /\ call[c].days = 365
        /\ call[c].nonce = SomeNonce(U32(4))
        /\ result[c].kind = "InvalidAmount"

\* C7 (Spec): stake() with amount > 0 and a lock duration outside 30, 90,
\* 180, 365 days returns InvalidDuration and issues no network call.
C7_BadDuration ==
    \A c \in Callers :
        IsStake(c) /\ call[c].amount # <<0, 0, 0, 0>> /\ call[c].days \notin {30, 90, 180, 365} =>
            /\ pc[c] = "done"
            /\ result[c].kind = "InvalidDuration"
            /\ rpc[c] = <<>>

\* stake(5, 45 days, None) has returned InvalidDuration.
C7_Witness ==
    \E c \in Callers :
        /\ IsStake(c) /\ pc[c] = "done"
        /\ call[c].amount = U64(5)
        /\ call[c].days = 45
        /\ call[c].nonce = NoNonce
        /\ result[c].kind = "InvalidDuration"

\* C8 (Spec): stake() with amount > 0 rejects the lock duration exactly when
\* it is not 30, 90, 180 or 365 days, and the deposit instruction it submits
\* carries days * 86400 seconds (2592000, 7776000, 15552000 or 31536000).
C8_DurationAccepted ==
    \A c \in Callers :
        IsStake(c) /\ call[c].amount # <<0, 0, 0, 0>> =>
            /\ result[c].kind = "InvalidDuration" <=> call[c].days \notin {30, 90, 180, 365}
            /\ Issued(c, "send_and_confirm_transaction") =>
                  LET secs == call[c].days * 86400
                      data == loc[c].instructions[3].data
                  IN  /\ secs \in {2592000, 7776000, 15552000, 31536000}
                      /\ IsLittleEndian(SubSeq(data, 21, 28),
                                        <<0, 0, secs \div 65536, secs % 65536>>)

\* A deposit locked for 365 days was submitted and confirmed.
C8_Witness ==
    \E c \in Callers :
        /\ IsStake(c) /\ pc[c] = "done"
        /\ call[c].days = 365
        /\ Issued(c, "send_and_confirm_transaction")
        /\ result[c].kind = "Ok"

\* The receipt accounts find_next_available_nonce can ask for.
AllProbedReceipts == ReceiptsOf(0..(ProbeLimit - 1))

\* C9 (Spec): when nonce probing returns n, no receipt account exists for n
\* and one exists for every nonce below n.
C9_FirstFreeNonce ==
    [][\A c \in Callers :
          pc[c] = "probe" /\ pc'[c] = "balance" =>
              LET n == U64Small(<<0, 0>> \o loc'[c].stake_nonce)
              IN  /\ ReceiptAddress(call[c].user, n) \notin receipts
                  /\ \A k \in 0..(n - 1) : ReceiptAddress(call[c].user, k) \in receipts]_vars

\* C10 (Spec): while a receipt account exists for every nonce 0..99, a
\* stake() with auto-selected nonce goes on probing or returns InvalidNonce,
\* having issued no balance query, blockhash request or submission.
C10_ExhaustedFails ==
    [][\A c \in Callers :
          IsStake(c) /\ pc[c] = "probe" /\ AllProbedReceipts \subseteq receipts =>
              \/ pc'[c] = "probe"
              \/ /\ pc'[c] = "done"
                 /\ result'[c].kind = "InvalidNonce"
                 /\ \A i \in 1..Len(rpc'[c]) : rpc'[c][i].method = "get_account"]_vars

\* C11 as the claim states it (Spec): a stake() that returns InvalidNonce has
\* issued no network call.
C11_InvalidNonceBeforeNetwork ==
    \A c \in Callers :
        IsStake(c) /\ result[c].kind = "InvalidNonce" => rpc[c] = <<>>

\* C11 amended (Spec): a stake() that returns InvalidNonce has issued exactly
\* the 100 account probes for the nonces 0, 1, ..., 99, in this order, and no
\* other network call.
C11_InvalidNonceAfterProbes ==
    \A c \in Callers :
        IsStake(c) /\ result[c].kind = "InvalidNonce" =>
            rpc[c] = [i \in 1..100 |-> [method |-> "get_account", nonce |-> i - 1]]

\* A stake() with auto-selected nonce has returned InvalidNonce after 100 probes.
C11_Witness ==
    \E c \in Callers :
        /\ IsStake(c) /\ pc[c] = "done"
        /\ call[c].nonce = NoNonce
        /\ result[c].kind = "InvalidNonce"
        /\ Len(rpc[c]) = 100

IsBalanceQuery(c) == call[c].op \in {"get_bonk_balance", "get_stake_balance"}

\* The token account a balance query of c asks for.
QueriedAccount(c) ==
    IF call[c].op = "get_bonk_balance" THEN get_user_bonk_ata(call[c].user)
    ELSE get_user_stake_ata(call[c].user)

\* C13 (SpecQuery): get_bonk_balance and get_stake_balance return Ok(0), not
\* an error, when the token account they ask for does not exist on the chain.
C13_MissingAccountIsZero ==
    [][\A c \in Callers :
          /\ IsBalanceQuery(c) /\ pc[c] = "query" /\ pc'[c] = "done"
          /\ QueriedAccount(c) \notin DOMAIN tokens
          => /\ result'[c].kind = "Ok"
             /\ result'[c].value = <<0, 0, 0, 0>>]_vars

\* get_stake_balance has returned Ok(0) for a user whose BONK account exists
\* and whose stake-token account does not.
C13_Witness ==
    \E c \in Callers :
        /\ call[c].op = "get_stake_balance" /\ pc[c] = "done"
        /\ get_user_stake_ata(call[c].user) \notin DOMAIN tokens
        /\ get_user_bonk_ata(call[c].user) \in DOMAIN tokens
        /\ result[c].kind = "Ok" /\ result[c].value = <<0, 0, 0, 0>>
        /\ ~failed[c]

\* a < b for two u64
LessU64(a, b) == \E i \in 1..4 : a[i] < b[i] /\ \A j \in 1..(i - 1) : a[j] = b[j]

\* C14 (Spec): when stake() has the BONK balance, it returns
\* InsufficientBalance{required: amount, available: balance} if the balance is
\* strictly less than the amount, having issued no blockhash request and no
\* submission; otherwise (a balance equal to the amount included) it goes on
\* to the blockhash request.
C14_InsufficientBalance ==
    [][\A c \in Callers :
          IsStake(c) /\ pc[c] = "balance" /\ pc'[c] # "balance" =>
              LET balance == loc'[c].bonk_balance
                  amount == call[c].amount
              IN  IF LessU64(balance, amount)
                  THEN /\ pc'[c] = "done"
                       /\ result'[c].kind = "InsufficientBalance"
                       /\ result'[c].required = amount
                       /\ result'[c].available = balance
                       /\ \A i \in 1..Len(rpc'[c]) :
                             rpc'[c][i].method \notin {"get_latest_blockhash",
                                                       "send_and_confirm_transaction"}
                  ELSE /\ pc'[c] = "blockhash"
                       /\ result'[c].kind = "None"]_vars

\* stake() of 10 with a balance of 5 has returned InsufficientBalance{10, 5}
\* without a blockhash request.
C14_Witness ==
    \E c \in Callers :
        /\ IsStake(c) /\ pc[c] = "done"
        /\ call[c].amount = U64(10)
        /\ result[c].kind = "InsufficientBalance"
        /\ result[c].required = U64(10)
        /\ result[c].available = U64(5)
        /\ ~Issued(c, "get_latest_blockhash")

\* C15 (SpecQuery): whenever an RPC call made by stake, get_bonk_balance,
\* get_stake_balance or get_user_stakes fails in transport, the operation
\* returns an error.
C15_FailureSurfaces ==
    \A c \in Callers :
        pc[c] = "done" /\ failed[c] => result[c].kind \notin {"Ok", "None"}

LastRequest(c) == rpc[c][Len(rpc[c])].method

\* C16 as the claim states it (Spec): a stake() that failed on its blockhash
\* request or on its send-and-confirm call returns the network layer's error
\* value for that request, unchanged.
C16_Verbatim ==
    \A c \in Callers :
        /\ IsStake(c) /\ pc[c] = "done" /\ result[c].kind # "Ok"
        /\ rpc[c] # <<>>
        /\ LastRequest(c) \in {"get_latest_blockhash", "send_and_confirm_transaction"}
        => /\ result[c].kind = "ClientError"
           /\ result[c].source.request = LastRequest(c)
           /\ result[c].source.cause \in {"transport", "program"}

\* C16 amended (Spec): a stake() that failed on its blockhash request returns
\* ClientError carrying the network layer's error value for that request,
\* unchanged; one that failed on its send-and-confirm call returns
\* TransactionFailed carrying only the text of the network layer's error.
C16_BlockhashVerbatimSendAsText ==
    \A c \in Callers :
        /\ IsStake(c) /\ pc[c] = "done" /\ result[c].kind # "Ok"
        /\ rpc[c] # <<>>
        => /\ LastRequest(c) = "get_latest_blockhash" =>
                /\ result[c].kind = "ClientError"
                /\ result[c].source = [request |-> "get_latest_blockhash",
                                       cause |-> "transport"]
                /\ result[c].text = ""
           /\ LastRequest(c) = "send_and_confirm_transaction" =>
                /\ result[c].kind = "TransactionFailed"
                /\ result[c].source = [request |-> "none", cause |-> "none"]
                /\ result[c].text \in {"transport", "program"}

\* A stake() has failed on its submission and returned TransactionFailed with
\* the text of a transport error.
C16_Witness ==
    \E c \in Callers :
        /\ IsStake(c) /\ pc[c] = "done"
        /\ rpc[c] # <<>>
        /\ LastRequest(c) = "send_and_confirm_transaction"
        /\ result[c].kind = "TransactionFailed" /\ result[c].text = "transport"

\* How many requests of `method` (for `nonce`) the running operation of c issued.
Requests(c, method, nonce) ==
    Cardinality({i \in 1..Len(rpc[c]) : rpc[c][i] = [method |-> method, nonce |-> nonce]})

\* C17 (Spec): within one stake() call there is at most one balance query, one
\* blockhash request, one send-and-confirm and one account probe per nonce;
\* the reply to the submission ends the call with no further request, and a
\* rejected submission (a duplicate nonce, an unknown source account) ends it
\* with TransactionFailed.
C17_NoRetry ==
    /\ [](\A c \in Callers :
             IsStake(c) =>
                 \* no two entries of the request log are the same request
                 Cardinality({rpc[c][i] : i \in 1..Len(rpc[c])}) = Len(rpc[c]))
    /\ [][\A c \in Callers :
             IsStake(c) /\ pc[c] = "send" /\ pc'[c] # "send" =>
                 /\ pc'[c] = "done"
                 /\ rpc'[c] = rpc[c]
                 /\ receipts' = receipts => result'[c].kind = "TransactionFailed"]_vars

\* stake(5, 30, Some(0)) was submitted while the receipt of nonce 0 existed, was
\* rejected by the program and returned TransactionFailed after one submission.
C17_Witness ==
    \E c \in Callers :
        /\ IsStake(c) /\ pc[c] = "done"
        /\ call[c].nonce = SomeNonce(U32(0))
        /\ ReceiptAddress(call[c].user, 0) \in receipts
        /\ result[c].kind = "TransactionFailed" /\ result[c].text = "program"
        /\ Requests(c, "send_and_confirm_transaction", -1) = 1

\* C19 (Spec): what stake() submits is one transaction of three instructions:
\* set compute-unit price 5045, idempotent creation of the user's stake-token
\* account, the deposit; the chain changes in no other step of the call, and
\* the step that takes the outcome of the submission leaves the chain as it
\* was or applies all of it: the receipt of the chosen nonce is new, the
\* stake-token account exists and `amount` has moved from the BONK account to it.
C19_OneAtomicTransaction ==
    /\ [](\A c \in Callers :
             IsStake(c) /\ Issued(c, "send_and_confirm_transaction") =>
                 LET ixs == loc[c].instructions
                 IN  /\ Len(ixs) = 3
                     /\ ixs[1].program_id = ComputeBudgetProgramId
                     /\ ixs[1].data = <<3, 181, 19, 0, 0, 0, 0, 0, 0>>
                     /\ ixs[2].program_id = AssociatedTokenProgramId
                     /\ ixs[2].data = <<1>>
                     /\ ixs[2].accounts[2].pubkey = get_user_stake_ata(call[c].user)
                     /\ ixs[3].program_id = BONK_STAKE_PROGRAM_ID
                     /\ SubSeq(ixs[3].data, 1, 8) = DepositDiscriminator
                     /\ Requests(c, "send_and_confirm_transaction", -1) = 1)
    /\ [][\A c \in Callers :
             IsStake(c) /\ pc'[c] # pc[c] =>
                 IF pc[c] # "send" THEN receipts' = receipts /\ tokens' = tokens
                 ELSE LET user == call[c].user
                          bonk == get_user_bonk_ata(user)
                          stake == get_user_stake_ata(user)
                          receipt == derive_stake_deposit_receipt(
                                         user, BONK_STAKE_POOL, loc[c].stake_nonce)[1]
                          amount == U64Small(call[c].amount)
                          before == IF stake \in DOMAIN tokens THEN tokens[stake] ELSE 0
                      IN  \/ receipts' = receipts /\ tokens' = tokens
                          \/ /\ receipt \notin receipts
                             /\ receipts' = receipts \cup {receipt}
                             /\ DOMAIN tokens' = DOMAIN tokens \cup {stake}
                             /\ tokens'[bonk] = tokens[bonk] - amount
                             /\ tokens'[stake] = before + amount]_vars

\* A stake() whose deposit was rejected (the receipt of its nonce existed) has
\* returned, and the stake-token account its transaction would have created
\* does not exist.
C19_Witness ==
    \E c \in Callers :
        /\ IsStake(c) /\ pc[c] = "done"
        /\ result[c].kind = "TransactionFailed" /\ result[c].text = "program"
        /\ derive_stake_deposit_receipt(call[c].user, BONK_STAKE_POOL,
                                        loc[c].stake_nonce)[1] \in receipts
        /\ get_user_bonk_ata(call[c].user) \in DOMAIN tokens
        /\ get_user_stake_ata(call[c].user) \notin DOMAIN tokens

\* The receipt address of the nonce the stake() of c has selected.
SelectedReceipt(c) ==
    derive_stake_deposit_receipt(call[c].user, BONK_STAKE_POOL, loc[c].stake_nonce)[1]

\* c has selected its nonce without being given one.
AutoSelected(c) ==
    IsStake(c) /\ call[c].nonce = NoNonce /\ pc[c] \in {"balance", "blockhash", "send", "done"}
    /\ Issued(c, "get_token_account_balance")

\* C18 (SpecRace): of two stake() calls for one owner that selected the same
\* nonce, the one whose submission is taken up while the receipt of that nonce
\* exists changes nothing on the chain and returns TransactionFailed, with no
\* further request; so the two never both return Ok.
C18_ProgramArbitrates ==
    /\ [][\A c \in Callers :
             AutoSelected(c) /\ pc[c] = "send" /\ pc'[c] # "send"
             /\ SelectedReceipt(c) \in receipts
             => /\ pc'[c] = "done"
                /\ result'[c].kind = "TransactionFailed"
                /\ rpc'[c] = rpc[c]
                /\ receipts' = receipts /\ tokens' = tokens]_vars
    /\ [](\A c \in Callers, d \in Callers :
             /\ c # d /\ AutoSelected(c) /\ AutoSelected(d)
             /\ call[c].user = call[d].user
             /\ loc[c].stake_nonce = loc[d].stake_nonce
             /\ pc[c] = "done" /\ pc[d] = "done"
             => ~(result[c].kind = "Ok" /\ result[d].kind = "Ok"))

\* Both callers selected nonce 2, the first free one, and submitted; the
\* receipt exists, one call returned Ok and the other the program's rejection.
C18_Witness ==
    \E c \in Callers, d \in Callers :
        /\ c # d /\ AutoSelected(c) /\ AutoSelected(d)
        /\ call[c].user = call[d].user
        /\ loc[c].stake_nonce = loc[d].stake_nonce
        /\ loc[c].stake_nonce = U32(2)
        /\ pc[c] = "done" /\ pc[d] = "done"
        /\ result[c].kind = "Ok"
        /\ result[d].kind = "TransactionFailed" /\ result[d].text = "program"
        /\ SelectedReceipt(c) \in receipts

\* C20 (SpecLayers): build_stake_instruction returns an instruction for
\* every input, a zero amount and lock durations outside the accepted values
\* included, with the amount and the duration it was given in the payload;
\* stake() given a zero amount or an unaccepted number of days returns
\* InvalidAmount or InvalidDuration and builds nothing.
C20_EncoderDoesNotValidate ==
    /\ lastIx.in # <<>> =>
          /\ lastIx.out.program_id = BONK_STAKE_PROGRAM_ID
          /\ Len(lastIx.out.accounts) = 12
          /\ Len(lastIx.out.data) = 28
          /\ IsLittleEndian(SubSeq(lastIx.out.data, 13, 20), lastIx.in[2])
          /\ IsLittleEndian(SubSeq(lastIx.out.data, 21, 28), lastIx.in[3])
    /\ \A c \in Callers :
          IsStake(c) /\ (call[c].amount = <<0, 0, 0, 0>> \/ call[c].days \notin {30, 90, 180, 365})
          => /\ pc[c] = "done"
             /\ result[c].kind \in {"InvalidAmount", "InvalidDuration"}
             /\ loc[c].instructions = <<>>

\* An instruction was built for amount 0 and a lock of 45 days.
C20_Witness ==
    /\ lastIx.in # <<>>
    /\ lastIx.in[2] = <<0, 0, 0, 0>>
    /\ lastIx.in[3] = U64(3888000)
    /\ Len(lastIx.out.data) = 28
    /\ SubSeq(lastIx.out.data, 13, 20) = <<0, 0, 0, 0, 0, 0, 0, 0>>

\* The nonce scan of c (library or command-line program) ends in this step.
ScanEnds(c) == pc[c] \in {"probe", "cli_probe"} /\ pc'[c] # pc[c]

IsScan(c) == call[c].op = "get_user_stakes"

\* The scan of c takes the reply to its get_account request in this step.
ScanStep(c) == IsScan(c) /\ pc[c] = "scan" /\ (pc'[c] = "done" \/ loc'[c].nonce # loc[c].nonce)

\* What a list of StakeInfo says of nonces and addresses.
Reported(stakes) ==
    [i \in 1..Len(stakes) |-> <<stakes[i].nonce, stakes[i].receipt_address>>]

\* C21 (SpecQuery): get_user_stakes asks for the nonces 0..99 only, one after
\* the other; at each it adds one entry, carrying the nonce and the address
\* derive_stake_deposit_receipt(user, BONK_STAKE_POOL, nonce), to the end of
\* its list exactly when the receipt account of that nonce exists; it returns
\* the list after nonce 99.
C21_ScanReportsExisting ==
    [][\A c \in Callers :
          ScanStep(c) =>
              LET n == loc[c].nonce
                  address == derive_stake_deposit_receipt(call[c].user, BONK_STAKE_POOL,
                                                          U32(n))[1]
                  stakes == IF pc'[c] = "done" THEN result'[c].stakes ELSE loc'[c].stakes
              IN  /\ n \in 0..99
                  /\ Reported(stakes) =
                        IF address \in receipts
                        THEN Append(Reported(loc[c].stakes), <<U32(n), address>>)
                        ELSE Reported(loc[c].stakes)
                  /\ IF n = 99
                     THEN pc'[c] = "done" /\ result'[c].kind = "Ok"
                     ELSE pc'[c] = "scan" /\ loc'[c].nonce = n + 1]_vars

\* C22 (Spec): a stake() given Some(n) issues no get_account request, and
\* takes n as it is: n is the nonce it goes on with, the four little-endian
\* nonce bytes of the deposit instruction it builds, and the nonce of the
\* receipt address in that instruction, whether n is below 100 or not and
\* whether the receipt account of n exists or not.
C22_ExplicitNonceUnchanged ==
    \A c \in Callers :
        IsStake(c) /\ call[c].nonce.some =>
            /\ ~Issued(c, "get_account")
            /\ rpc[c] # <<>> => loc[c].stake_nonce = call[c].nonce.n
            /\ Issued(c, "get_latest_blockhash") =>
                  LET ix == loc[c].instructions[3]
                  IN  /\ IsLittleEndian(SubSeq(ix.data, 9, 12), call[c].nonce.n)
                      /\ ix.accounts[8].pubkey =
                            derive_stake_deposit_receipt(call[c].user, BONK_STAKE_POOL,
                                                         call[c].nonce.n)[1]

\* stake(.., Some(0)) was submitted with nonce 0 while the receipt account of
\* nonce 0 existed, and the network rejected it.
C22_Witness ==
    \E c \in Callers :
        /\ IsStake(c) /\ pc[c] = "done"
        /\ call[c].nonce = SomeNonce(U32(0))
        /\ ReceiptAddress(call[c].user, 0) \in receipts
        /\ Issued(c, "send_and_confirm_transaction")
        /\ SubSeq(loc[c].instructions[3].data, 9, 12) = <<0, 0, 0, 0>>
        /\ result[c].kind = "TransactionFailed"

\* The get_account requests in the request log of c.
Probes(c) == SelectSeq(rpc[c], LAMBDA r : r.method = "get_account")

\* C23 (SpecProbe): the nonce search of stake() issues its get_account
\* requests before any other request, for the nonces 0, 1, 2, ... in this
\* order, one each and at most 100; it stops at the first nonce whose account
\* is reported missing, having issued n + 1 requests when it returns n; and a
\* search that has started comes to its end.
C23_ProbingBounded ==
    /\ [](\A c \in Callers :
             IsStake(c) /\ ~call[c].nonce.some =>
                 LET probes == Probes(c)
                 IN  /\ Len(probes) <= 100
                     /\ probes = [i \in 1..Len(probes) |-> [method |-> "get_account",
                                                           nonce |-> i - 1]]
                     /\ SubSeq(rpc[c], 1, Len(probes)) = probes
                     /\ pc[c] = "probe" => Len(rpc[c]) = loc[c].nonce + 1
                     /\ pc[c] # "probe" /\ rpc[c] # <<>> /\ result[c].kind # "InvalidNonce"
                        => loc[c].stake_nonce = <<0, Len(probes) - 1>>
                     /\ result[c].kind = "InvalidNonce" => Len(probes) = 100)
    /\ [][\A c \in Callers :
             /\ IsStake(c) /\ pc[c] = "probe" /\ rpc'[c] # rpc[c]
             /\ ReceiptAddress(call[c].user, loc[c].nonce) \notin receipts
             => /\ pc'[c] = "balance"
                /\ loc'[c].stake_nonce = <<0, loc[c].nonce>>]_vars
    /\ \A c \in Callers : (pc[c] = "probe") ~> (pc[c] # "probe")

\* A search that found accounts at the nonces 0..98 has returned 99 after 100
\* get_account requests.
C23_Witness ==
    \E c \in Callers :
        /\ IsStake(c) /\ call[c].nonce = NoNonce
        /\ pc[c] = "balance"
        /\ loc[c].stake_nonce = <<0, 99>>
        /\ Len(Probes(c)) = 100
        /\ ReceiptAddress(call[c].user, 98) \in receipts

\* Where a request stands in stake(): nonce selection, balance check, submit.
StepOf(method) ==
    CASE method = "get_account" -> 1
      [] method = "get_token_account_balance" -> 2
      [] method = "get_latest_blockhash" -> 3
      [] method = "send_and_confirm_transaction" -> 4

\* C24 (Spec): stake() checks the amount, then the duration, then selects the
\* nonce, then checks the balance, then builds, then submits, and returns the
\* error of the first step that fails: a zero amount gives InvalidAmount
\* whatever the duration; InvalidDuration and InvalidAmount come before any
\* request; the requests are issued in the order account probes, balance
\* query, blockhash, submission; InvalidNonce comes before the balance query;
\* InsufficientBalance comes right after the balance query, which follows the
\* probes when the nonce is auto-selected; the instructions are built only
\* after a sufficient balance was seen and before the blockhash request.
C24_StepOrder ==
    \A c \in Callers :
        IsStake(c) =>
            LET kind == result[c].kind
                log == rpc[c]
                last == log[Len(log)].method
            IN  /\ \A i \in 1..(Len(log) - 1) :
                      StepOf(log[i].method) <= StepOf(log[i + 1].method)
                /\ call[c].amount = <<0, 0, 0, 0>> => kind = "InvalidAmount"
                /\ kind = "InvalidAmount" => call[c].amount = <<0, 0, 0, 0>> /\ log = <<>>
                /\ kind = "InvalidDuration" =>
                      call[c].days \notin {30, 90, 180, 365} /\ log = <<>>
                /\ kind = "InvalidNonce" => last = "get_account"
                /\ kind = "InsufficientBalance" =>
                      /\ last = "get_token_account_balance"
                      /\ LessU64(result[c].available, call[c].amount)
                      /\ ~call[c].nonce.some =>
                            Len(log) >= 2 /\ log[Len(log) - 1].method = "get_account"
                /\ log # <<>> /\ ~call[c].nonce.some => log[1].method = "get_account"
                /\ loc[c].instructions # <<>> <=> Issued(c, "get_latest_blockhash")
                /\ loc[c].instructions # <<>> =>
                      ~LessU64(loc[c].bonk_balance, call[c].amount)
                /\ kind = "ClientError" => last = "get_latest_blockhash"
                /\ kind \in {"TransactionFailed", "Ok"} => last = "send_and_confirm_transaction"

\* stake(0, 45 days, ..) has returned InvalidAmount, and not InvalidDuration.
C24_Witness ==
    \E c \in Callers :
        /\ IsStake(c) /\ pc[c] = "done"
        /\ call[c].amount = <<0, 0, 0, 0>>
        /\ call[c].days = 45
        /\ result[c].kind = "InvalidAmount"
        /\ rpc[c] = <<>>

\* The call of c returns Ok in this step.
Succeeds(c) == IsStake(c) /\ pc[c] = "send" /\ pc'[c] = "done" /\ result'[c].kind = "Ok"

\* C25 (SpecSeq): as long as every applied submission was a successful call,
\* the receipts on the chain are those of the nonces 0..k-1, k the number of
\* successful calls so far; only a successful call adds one; the next
\* successful call has auto-selected the nonce k and adds the receipt of k;
\* the nonce a search returns has no receipt account; and the search fails
\* with InvalidNonce only once the receipts of all of 0..99 exist.
C25_SequentialNonces ==
    /\ [](\A c \in Callers :
             LET k == Cardinality(receipts)
             IN  /\ k <= 100
                 /\ receipts = ReceiptsOf(0..(k - 1))
                 /\ IsStake(c) /\ pc[c] \in {"balance", "blockhash", "send"} =>
                       /\ loc[c].stake_nonce = <<0, k>>
                       /\ SelectedReceipt(c) \notin receipts
                 /\ IsStake(c) /\ result[c].kind = "InvalidNonce" => k = 100)
    /\ [][(\A c \in Callers : ~failed'[c]) =>
             /\ receipts' # receipts => \E c \in Callers : Succeeds(c)
             /\ \A c \in Callers :
                   Succeeds(c) =>
                       /\ loc[c].stake_nonce = <<0, Cardinality(receipts)>>
                       /\ receipts' = receipts \cup
                              {ReceiptAddress(call[c].user, Cardinality(receipts))}]_vars

\* The tenth successful call in a row has used the nonce 9.
C25_Witness ==
    \E c \in Callers :
        /\ IsStake(c) /\ pc[c] = "done" /\ result[c].kind = "Ok"
        /\ ~failed[c]
        /\ loc[c].stake_nonce = <<0, 9>>
        /\ receipts = ReceiptsOf(0..9)

\* The nonce search of c takes the reply to its get_account request in this step.
ProbeStep(c) ==
    IsStake(c) /\ pc[c] = "probe" /\ (pc'[c] # "probe" \/ loc'[c].nonce # loc[c].nonce)

Searched(c) ==
    /\ IsStake(c) /\ ~call[c].nonce.some /\ rpc[c] # <<>>
    /\ pc[c] \in {"balance", "done"}

\* The nonces get_user_stakes of c has reported.
ReportedNonces(c) ==
    {U64Small(<<0, 0>> \o result[c].stakes[i].nonce) : i \in 1..Len(result[c].stakes)}

\* C28 (SpecAgree): on one chain state, with truthful replies, a finished
\* nonce search and a finished get_user_stakes for the same owner agree: if
\* the search returned n, every nonce below n is reported and n is not, and
\* fewer than 100 entries are reported; the search failed with InvalidNonce
\* exactly when 100 entries are reported.
C28_SearchAndScanAgree ==
    \A a \in Callers, b \in Callers :
        /\ Searched(a)
        /\ IsScan(b) /\ pc[b] = "done"
        /\ call[a].user = call[b].user
        => LET n == U64Small(<<0, 0>> \o loc[a].stake_nonce)
               entries == Len(result[b].stakes)
           IN  /\ result[a].kind = "InvalidNonce" <=> entries = 100
               /\ result[a].kind # "InvalidNonce" =>
                     /\ \A k \in 0..(n - 1) : k \in ReportedNonces(b)
                     /\ n \notin ReportedNonces(b)

\* With receipts at every nonce of 0..99 but 50, the search has returned 50
\* and get_user_stakes has reported 99 entries.
C28_Witness ==
    \E a \in Callers, b \in Callers :
        /\ Searched(a) /\ IsScan(b) /\ pc[b] = "done"
        /\ loc[a].stake_nonce = <<0, 50>>
        /\ Len(result[b].stakes) = 99
        /\ 49 \in ReportedNonces(b) /\ 51 \in ReportedNonces(b)

\* The programs and sysvars build_stake_instruction refers to read-only.
ReadOnlyReferences == {TokenProgramId, RentSysvarId, SystemProgramId}

\* C29 (SpecPure): an instruction built by build_stake_instruction targets
\* BONK_STAKE_PROGRAM_ID; its first two account references are the user,
\* signer and writable; its references to the token program, the rent sysvar
\* and the system program, all three present, are read-only and not signers;
\* every other reference, that to reward vault 0 among them, is writable and
\* not a signer.
C29_AccountFlags ==
    lastIx # NoIx =>
        LET user == lastIx.in[1]
            accounts == lastIx.out.accounts
        IN  /\ lastIx.out.program_id = BONK_STAKE_PROGRAM_ID
            /\ \A i \in {1, 2} :
                  /\ accounts[i].pubkey = user
                  /\ accounts[i].is_signer /\ accounts[i].is_writable
            /\ \A key \in ReadOnlyReferences :
                  \E i \in 3..Len(accounts) : accounts[i].pubkey = key
            /\ \E i \in 3..Len(accounts) : accounts[i].pubkey = BONK_REWARD_VAULT_0
            /\ \A i \in 3..Len(accounts) :
                  /\ ~accounts[i].is_signer
                  /\ accounts[i].is_writable <=> accounts[i].pubkey \notin ReadOnlyReferences

\* An instruction was built for the other user: the reward vault reference is
\* writable, the rent sysvar reference is not, neither is a signer.
C29_Witness ==
    /\ lastIx # NoIx
    /\ lastIx.in[1] = OtherUser
    /\ lastIx.out.accounts[1] = [pubkey |-> OtherUser, is_signer |-> TRUE, is_writable |-> TRUE]
    /\ lastIx.out.accounts[10] =
          [pubkey |-> RentSysvarId, is_signer |-> FALSE, is_writable |-> FALSE]
    /\ lastIx.out.accounts[12] =
          [pubkey |-> BONK_REWARD_VAULT_0, is_signer |-> FALSE, is_writable |-> TRUE]

\* a < b for two i64, by comparing them as u64 with the sign bit inverted
Before(a, b) ==
    LessU64([a EXCEPT ![1] = (@ + 32768) % 65536], [b EXCEPT ![1] = (@ + 32768) % 65536])

\* r + t = u as integers, for three i64: the digits add up with the carries,
\* and the carry out of the top digit makes up for the signs.
IsSum(r, t, u) ==
    LET s4 == r[4] + t[4]
        s3 == r[3] + t[3] + s4 \div 65536
        s2 == r[2] + t[2] + s3 \div 65536
        s1 == r[1] + t[1] + s2 \div 65536
        sign(x) == IF x[1] >= 32768 THEN 1 ELSE 0
    IN  /\ << s1 % 65536, s2 % 65536, s3 % 65536, s4 % 65536 >> = u
        /\ s1 \div 65536 + sign(u) = sign(r) + sign(t)

\* C30 (SpecLock): for every unlock_at and current time t,
\* remaining_lock_time(t) returns a value that is not negative, that is
\* unlock_at - t when t < unlock_at and 0 otherwise, and that is greater than
\* 0 exactly when is_locked(t) holds.
C30_RemainingLockTime ==
    lastLock # NoLock =>
        LET unlock_at == lastLock.in[1]
            t == lastLock.in[2]
            remaining == lastLock.out.remaining
        IN  /\ ~remaining.panicked
            /\ remaining.value[1] < 32768
            /\ IF Before(t, unlock_at)
               THEN IsSum(remaining.value, t, unlock_at)
               ELSE remaining.value = <<0, 0, 0, 0>>
            /\ lastLock.out.is_locked <=> remaining.value # <<0, 0, 0, 0>>

====
